---- MODULE Spec2Model ----
(***************************************************************************)
(* Model of the AI resilience layer of revyse-backend:                     *)
(*   app/services/unified_ai_service.py                                    *)
(*     TokenUsage, CacheEntry, ResponseCache, UnifiedAIService             *)
(*   app/services/optimized_file_service.py                                *)
(*     OptimizedFileService (FileSpec)                                     *)
(*   app/admin/router.py                                                   *)
(*     the usage, cache and reset endpoints (AdminSpec, StatsSpec)         *)
(*   app/services/streak_service.py                                        *)
(*     StreakService (StreakSpec)                                          *)
(* and of callers that use one TokenUsage and one ResponseCache from       *)
(* several threads (ConcSpec).                                             *)
(*                                                                         *)
(* Strings.  A text is a sequence of blocks [ch, n]: n copies of the       *)
(* character ch.  Slicing (text[:k]) and len() are computed on that form,  *)
(* so the program's own limits (5000, 25000, 30000 characters) are used    *)
(* unscaled.  A provider response is a sequence of tokens (see Tokens).    *)
(*                                                                         *)
(* Time.  datetime.utcnow() is the integer clock `now` (seconds); a        *)
(* handler runs at one instant.                                            *)
(***************************************************************************)
EXTENDS Integers, Sequences, FiniteSets, TLC

VARIABLES
    now,                \* datetime.utcnow(), in seconds
    max_size,           \* ResponseCache.max_size
    cache,              \* ResponseCache._cache, a dict in insertion order
    token_usage,        \* UnifiedAIService.token_usage (TokenUsage)
    primary_provider,   \* UnifiedAIService.primary_provider
    gemini_client,      \* UnifiedAIService.gemini_client is not None
    openrouter_client,  \* UnifiedAIService.openrouter_client is not None
    ret,                \* what the last ResponseCache call returned
    last,               \* the last generate_* call: request and outcome
    text_cache,         \* OptimizedFileService._text_cache, a dict in insertion order
    PDF2IMAGE_AVAILABLE,    \* optimized_file_service.PDF2IMAGE_AVAILABLE
    TESSERACT_AVAILABLE,    \* optimized_file_service.TESSERACT_AVAILABLE
    extracted,          \* the last extract_text call: request and outcome
    threads,            \* the callers that run concurrently: position and locals
    report,             \* the last response of an admin endpoint
    utc_day,            \* datetime.utcnow().date(), in days
    streaks,            \* the table readingstreak: the row of each user
    streak_call         \* the last update_streak call: request and outcome

fileVars == <<text_cache, PDF2IMAGE_AVAILABLE, TESSERACT_AVAILABLE, extracted>>

streakVars == <<utc_day, streaks, streak_call>>

vars == <<now, max_size, cache, token_usage, primary_provider, gemini_client,
          openrouter_client, ret, last, fileVars, threads, report, streakVars>>

(***************************************************************************)
(* Bounds of the model.                                                    *)
(***************************************************************************)
\* ResponseCache capacities explored by CacheSpec: 1..MaxCap
MaxCap == 4
\* the clock of CacheSpec runs 0..MaxTime
MaxTime == 2
\* ttl_seconds passed to ResponseCache.set in CacheSpec: 1..MaxTTL
MaxTTL == 2

(***************************************************************************)
(* Python values.  Every value is a record [t, v]: t is its type and v a   *)
(* sequence of strings (the tokens of a str, the records of a list).       *)
(***************************************************************************)
None == [t |-> "none", v |-> <<>>]

PyStr(s) == [t |-> "str", v |-> s]

PyList(s) == [t |-> "list", v |-> s]

\* bool(x): None, "" and [] are falsy
Truthy(x) == x.t # "none" /\ x.v # <<>>

(***************************************************************************)
(* Texts and digests.                                                      *)
(***************************************************************************)
RECURSIVE TextLen(_)
\* len(text)
TextLen(text) ==
    IF text = <<>> THEN 0 ELSE Head(text).n + TextLen(Tail(text))

RECURSIVE Slice(_, _)
\* text[:k]
Slice(text, k) ==
    IF text = <<>> \/ k <= 0 THEN <<>>
    ELSE IF Head(text).n <= k
         THEN <<Head(text)>> \o Slice(Tail(text), k - Head(text).n)
         ELSE <<[ch |-> Head(text).ch, n |-> k]>>

\* the code point of a character of a text
Ord(ch) == IF ch = "a" THEN 97 ELSE IF ch = "b" THEN 98 ELSE 99

RECURSIVE TextBytes(_)
\* content.encode(): the text as a sequence of numbers, block by block
TextBytes(text) ==
    IF text = <<>> THEN <<>>
    ELSE <<Ord(Head(text).ch), Head(text).n>> \o TextBytes(Tail(text))

\* modulus of the digest
DigestMod == 46337

RECURSIVE MD5(_)
\* hashlib.md5(bytes).hexdigest(): a deterministic digest of the bytes.  MD5
\* itself is not computable here; this polynomial digest stands for it and,
\* like MD5 on real inputs, has no collision on the inputs of the model
\* (DigestCollisionFree below).
MD5(bytes) ==
    IF bytes = <<>> THEN 7
    ELSE (MD5(SubSeq(bytes, 1, Len(bytes) - 1)) * 31 + bytes[Len(bytes)] + 1) % DigestMod

\* rank of a keyword name in sorted order (json.dumps(..., sort_keys=True))
KeyRank(name) ==
    CASE name = "diff" -> 1
      [] name = "num" -> 2
      [] name = "summary_type" -> 3
      [] name = "type" -> 4

RECURSIVE DumpsFrom(_, _)
\* the items of kwargs with rank >= r, in ascending key order
DumpsFrom(kwargs, r) ==
    IF r > 4 THEN <<>>
    ELSE LET here == {k \in DOMAIN kwargs : KeyRank(k) = r}
         IN  (IF here = {} THEN <<>>
              ELSE LET k == CHOOSE x \in here : TRUE IN <<r, kwargs[k]>>)
             \o DumpsFrom(kwargs, r + 1)

\* json.dumps(kwargs, sort_keys=True) if kwargs else ""   (as bytes)
ParamsBytes(kwargs) ==
    IF DOMAIN kwargs = {} THEN <<>> ELSE <<123>> \o DumpsFrom(kwargs, 1) \o <<125>>

\* ResponseCache._generate_key
GenerateKey(operation, content, kwargs) ==
    <<operation, MD5(TextBytes(content)), MD5(ParamsBytes(kwargs))>>

(***************************************************************************)
(* CacheEntry and ResponseCache.                                           *)
(***************************************************************************)
\* CacheEntry.is_expired
IsExpired(entry, t) == t > entry.created_at + entry.ttl_seconds

\* position of key in the dict, 0 when absent
IndexOf(c, key) ==
    IF \E i \in 1..Len(c) : c[i].key = key
    THEN CHOOSE i \in 1..Len(c) : c[i].key = key
    ELSE 0

\* del d[key] for every key of keys
DeleteKeys(c, keys) == SelectSeq(c, LAMBDA e : e.key \notin keys)

\* a get that reports the miss but leaves the expired entry in the dict
GetResult_KeepExpired(c, key, t) ==
    LET i == IndexOf(c, key)
    IN  IF i # 0 /\ ~IsExpired(c[i], t)
        THEN [value |-> c[i].value, cache |-> c, evicted |-> FALSE]
        ELSE [value |-> None, cache |-> c, evicted |-> FALSE]

\* ResponseCache.get, after the key is computed: the value returned and the
\* dict afterwards
GetResult(c, key, t) ==
    LET i == IndexOf(c, key)
    IN  IF i # 0 /\ ~IsExpired(c[i], t)
        THEN [value |-> c[i].value, cache |-> c, evicted |-> FALSE]
        ELSE IF i # 0
        THEN [value |-> None, cache |-> DeleteKeys(c, {key}), evicted |-> TRUE]
        ELSE [value |-> None, cache |-> c, evicted |-> FALSE]

\* ResponseCache._cleanup_expired
CleanupExpired(c, t) == SelectSeq(c, LAMBDA e : ~IsExpired(e, t))

RECURSIVE OldestKeys(_, _)
\* sorted(keys, key=created_at)[:n]  (sorted is stable: ties keep dict order)
OldestKeys(c, n) ==
    IF n <= 0 \/ c = <<>> THEN {}
    ELSE LET i == CHOOSE j \in 1..Len(c) :
                    /\ \A k \in 1..Len(c) : c[j].created_at <= c[k].created_at
                    /\ \A k \in 1..(j - 1) : c[k].created_at > c[j].created_at
         IN  {c[i].key} \cup OldestKeys(DeleteKeys(c, {c[i].key}), n - 1)

\* ResponseCache.set, lines 97-104: the dict after the capacity check
MakeRoom(c, ms, t) ==
    IF Len(c) >= ms
    THEN LET c1 == CleanupExpired(c, t)
         IN  IF Len(c1) >= ms
             THEN DeleteKeys(c1, OldestKeys(c1, ms \div 4))
             ELSE c1
    ELSE c

\* a set that does not overwrite the entry a key already has
SetResult_KeepExisting(c, ms, key, value, ttl_seconds, t) ==
    LET c2 == MakeRoom(c, ms, t)
        e  == [key |-> key, value |-> value, created_at |-> t,
               ttl_seconds |-> ttl_seconds]
    IN  IF IndexOf(c2, key) # 0 THEN c2 ELSE Append(c2, e)

\* a set that overwrites the value and the ttl of an entry but keeps the
\* creation time the entry had
SetResult_KeepCreatedAt(c, ms, key, value, ttl_seconds, t) ==
    LET c2 == MakeRoom(c, ms, t)
        e  == [key |-> key, value |-> value, created_at |-> t,
               ttl_seconds |-> ttl_seconds]
        i  == IndexOf(c2, key)
    IN  IF i # 0 THEN [c2 EXCEPT ![i] = [e EXCEPT !.created_at = c2[i].created_at]]
        ELSE Append(c2, e)

\* ResponseCache.set, after the key is computed: the dict afterwards
SetResult(c, ms, key, value, ttl_seconds, t) ==
    LET c2 == MakeRoom(c, ms, t)
        e  == [key |-> key, value |-> value, created_at |-> t,
               ttl_seconds |-> ttl_seconds]
        i  == IndexOf(c2, key)
    IN  IF i # 0 THEN [c2 EXCEPT ![i] = e] ELSE Append(c2, e)

Keys(c) == {c[i].key : i \in 1..Len(c)}

(***************************************************************************)
(* Inputs.                                                                 *)
(***************************************************************************)
\* text[:5000] in generate_quiz_questions
QuizKeyLen == 5000
\* text[:25000] in generate_quiz_questions
QuizMaxLen == 25000
\* text[:5000] in generate_flashcards
FlashKeyLen == 5000
\* text[:25000] in generate_flashcards
FlashMaxLen == 25000
\* text[:30000] in generate_summary
SummaryMaxLen == 30000

\* texts have at most MaxBlocks blocks
MaxBlocks == 4

Chars == {"a", "b"}

\* The i-th block of an input text ends where one of the program's slices
\* cuts: at 5000, 25000 and 30000 characters; later blocks hold one character.
BlockLen(i) ==
    CASE i = 1 -> QuizKeyLen
      [] i = 2 -> QuizMaxLen - QuizKeyLen
      [] i = 3 -> SummaryMaxLen - QuizMaxLen
      [] OTHER -> 1

MkText(chars) == [i \in 1..Len(chars) |-> [ch |-> chars[i], n |-> BlockLen(i)]]

\* the input texts: 2 or MaxBlocks blocks, all "a" but the last, which is any
\* character
InputTexts ==
    {MkText([i \in 1..k |-> IF i < k THEN "a" ELSE c]) : k \in {2, MaxBlocks}, c \in Chars}

\* CacheSpec: the arguments of ResponseCache.get and ResponseCache.set
CacheOps == {"summary", "quiz"}

CacheContents == {MkText(<<c>>) : c \in Chars}

NoKwargs == <<>>

CacheKwargs == {NoKwargs}

TTLs == 1..MaxTTL

\* a stored str artifact: empty, or some text
EmptyStr == PyStr(<<>>)

SomeStr == PyStr(<<"TEXT">>)

\* the calls cache.set(operation, content, value, ttl_seconds) of CacheSpec:
\* every key with the value SomeStr and ttl 1, and one key also with the
\* empty value and every other ttl
CacheSetInputs ==
    {[operation |-> o, content |-> c, value |-> SomeStr, ttl_seconds |-> 1, kwargs |-> k] :
        o \in CacheOps, c \in CacheContents, k \in CacheKwargs}
    \cup
    {[operation |-> "summary", content |-> MkText(<<"a">>), value |-> EmptyStr,
      ttl_seconds |-> ttl, kwargs |-> NoKwargs] : ttl \in TTLs \ {1}}

(***************************************************************************)
(* State and the operations of ResponseCache (CacheSpec).                  *)
(***************************************************************************)
ZeroUsage == [input_tokens |-> 0, output_tokens |-> 0, total_calls |-> 0, cached_hits |-> 0]

\* ret: the call (kind, key, and for set the value and ttl_seconds), when it
\* was made, what get returned (value), whether get deleted an expired entry
\* (evicted), and whether get came right after a set of the same key, with a
\* positive ttl and no time elapsed (after_set), and whether set found an
\* unexpired entry under its key (replaced)
NoRet == [kind |-> "none", key |-> <<"", 0, 0>>, value |-> None,
          ttl_seconds |-> 0, evicted |-> FALSE, time |-> 0, after_set |-> FALSE,
          replaced |-> FALSE]

\* no generate_* call was made yet
NoCall == [n |-> 0, op |-> "none", text |-> <<>>, opts |-> NoKwargs,
           key |-> <<"", 0, 0>>, sent |-> <<>>, hit |-> FALSE, stored |-> FALSE,
           ok |-> TRUE, result |-> None, raw |-> <<>>, attempts |-> <<>>,
           causes |-> {}, time |-> 0, usage_before |-> ZeroUsage]

\* the empty text of the file service (see OptimizedFileService below)
EmptyText == [len |-> 0, lead |-> 0, trail |-> 0, words |-> 0, wordchars |-> 0,
              alnum |-> 0]

\* no extract_text call was made yet
NoExtraction == [n |-> 0, bytes |-> <<>>, path |-> 0, ext |-> <<>>, hash |-> 0,
                 hit |-> FALSE, ok |-> TRUE, error |-> "", via |-> "none",
                 text |-> EmptyText, stages |-> <<>>, requests |-> 0, cleared |-> FALSE,
                 usage_before |-> ZeroUsage]

\* no row of the table readingstreak for a user
NoRow == [exists |-> FALSE, current_streak |-> 0, longest_streak |-> 0,
          has_activity |-> FALSE, last_activity_date |-> 0,
          total_reading_days |-> 0, created_at |-> 0, updated_at |-> 0]

\* the users that have reading streaks
Users == {1, 2}

NoStreakCall == [n |-> 0, user_id |-> 0, today |-> 0, before |-> NoRow]

\* the streak service in a process where no streak is recorded
StreaksIdle ==
    /\ utc_day = 0
    /\ streaks = [u \in Users |-> NoRow]
    /\ streak_call = NoStreakCall

\* OptimizedFileService.__init__, in a process where the file service is not
\* used: the optional OCR libraries are installed
FilesIdle ==
    /\ text_cache = <<>>
    /\ PDF2IMAGE_AVAILABLE = TRUE
    /\ TESSERACT_AVAILABLE = TRUE
    /\ extracted = NoExtraction

\* no caller runs concurrently with the handler
NoThreads == <<>>

\* no admin endpoint was called yet (n counts the admin responses, served
\* the requests of every kind that the process had answered with this one)
NoReport == [n |-> 0, endpoint |-> "none", status |-> "none", stats |-> ZeroUsage,
             estimated_cost_usd |-> 0, cache_hit_rate_percent |-> 0,
             total_requests |-> 0, cached_files |-> 0, cache_size_chars |-> 0,
             served |-> 0]

InitCache ==
    /\ FilesIdle
    /\ threads = NoThreads
    /\ report = NoReport
    /\ StreaksIdle
    /\ now = 0
    /\ max_size \in 1..MaxCap
    /\ cache = <<>>
    /\ token_usage = ZeroUsage
    /\ primary_provider = "gemini"
    /\ gemini_client = TRUE
    /\ openrouter_client = TRUE
    /\ ret = NoRet
    /\ last = NoCall

\* cache.get(operation, content, **kwargs)
CacheGet(operation, content, kwargs) ==
    LET key == GenerateKey(operation, content, kwargs)
        r   == GetResult(cache, key, now)
    IN  /\ cache' = r.cache
        /\ ret' = [kind |-> "get", key |-> key, value |-> r.value,
                   ttl_seconds |-> 0, evicted |-> r.evicted, time |-> now,
                   after_set |-> /\ ret.kind = "set" /\ ret.key = key
                                 /\ ret.time = now /\ ret.ttl_seconds > 0,
                   replaced |-> FALSE]
        /\ UNCHANGED <<now, max_size, token_usage, primary_provider,
                       gemini_client, openrouter_client, last, fileVars, threads, report, streakVars>>

\* cache.set(operation, content, value, ttl_seconds, **kwargs)
CacheSet(operation, content, value, ttl_seconds, kwargs) ==
    LET key == GenerateKey(operation, content, kwargs)
        i   == IndexOf(cache, key)
    IN  /\ cache' = SetResult(cache, max_size, key, value, ttl_seconds, now)
        /\ ret' = [kind |-> "set", key |-> key, value |-> value,
                   ttl_seconds |-> ttl_seconds, evicted |-> FALSE, time |-> now,
                   after_set |-> FALSE,
                   replaced |-> i # 0 /\ ~IsExpired(cache[i], now)]
        /\ UNCHANGED <<now, max_size, token_usage, primary_provider,
                       gemini_client, openrouter_client, last, fileVars, threads, report, streakVars>>

\* a second passes
CacheTick ==
    /\ now < MaxTime
    /\ now' = now + 1
    /\ UNCHANGED <<max_size, cache, token_usage, primary_provider,
                   gemini_client, openrouter_client, ret, last, fileVars, threads, report, streakVars>>

DoCacheGet == \E o \in CacheOps, c \in CacheContents, k \in CacheKwargs : CacheGet(o, c, k)

DoCacheSet ==
    \E a \in CacheSetInputs :
        CacheSet(a.operation, a.content, a.value, a.ttl_seconds, a.kwargs)

NextCache == DoCacheGet \/ DoCacheSet \/ CacheTick

CacheSpec == InitCache /\ [][NextCache]_vars

(***************************************************************************)
(* Provider responses and their parsing.                                   *)
(* A response is a sequence of tokens: whitespace (" "), an opening code   *)
(* fence with or without the json tag ("FENCE_JSON", "FENCE": three        *)
(* backquotes), prose ("TEXT") or one JSON document, named by its text.    *)
(***************************************************************************)
\* The JSON documents: a list of one record, the empty list, an object that
\* holds a list of one record under a key, an object that holds a string
\* under a key, the empty object and a number.
JsonDocs ==
    {"[r]", "[]", "{questions:[r]}", "{flashcards:[r]}", "{questions:TEXT}",
     "{flashcards:TEXT}", "{}", "7"}

\* len() of a token
TokLen(tok) ==
    CASE tok = " " -> 1
      [] tok = "FENCE" -> 3
      [] tok = "FENCE_JSON" -> 7
      [] tok = "TEXT" -> 40
      [] tok = "[r]" -> 24
      [] tok = "[]" -> 2
      [] tok = "{questions:[r]}" -> 39
      [] tok = "{flashcards:[r]}" -> 40
      [] tok = "{}" -> 2
      [] tok = "{questions:TEXT}" -> 57
      [] tok = "{flashcards:TEXT}" -> 58
      [] tok = "7" -> 1

RECURSIVE StrLen(_)
\* len(content)
StrLen(content) ==
    IF content = <<>> THEN 0 ELSE TokLen(Head(content)) + StrLen(Tail(content))

RECURSIVE LStrip(_)
LStrip(content) ==
    IF content # <<>> /\ Head(content) = " " THEN LStrip(Tail(content)) ELSE content

RECURSIVE RStrip(_)
RStrip(content) ==
    IF content # <<>> /\ content[Len(content)] = " "
    THEN RStrip(SubSeq(content, 1, Len(content) - 1))
    ELSE content

\* str.strip()
Strip(content) == RStrip(LStrip(content))

\* UnifiedAIService._clean_json_response
CleanJsonResponse(content) ==
    LET c0 == Strip(content)
        c1 == IF c0 # <<>> /\ Head(c0) = "FENCE_JSON" THEN Tail(c0)
              ELSE IF c0 # <<>> /\ Head(c0) = "FENCE" THEN Tail(c0)
              ELSE c0
        c2 == IF c1 # <<>> /\ c1[Len(c1)] = "FENCE"
              THEN SubSeq(c1, 1, Len(c1) - 1)
              ELSE c1
    IN  Strip(c2)

\* json.loads: one JSON document, whitespace around it allowed; anything else
\* raises json.JSONDecodeError (ok = FALSE)
JsonLoads(content) ==
    LET c == Strip(content)
    IN  IF Len(c) = 1 /\ c[1] \in JsonDocs
        THEN [ok |-> TRUE, doc |-> c[1]]
        ELSE [ok |-> FALSE, doc |-> ""]

\* isinstance(result, dict)
IsDict(doc) ==
    doc \in {"{questions:[r]}", "{flashcards:[r]}", "{questions:TEXT}",
             "{flashcards:TEXT}", "{}"}

\* isinstance(result, list)
IsList(doc) == doc \in {"[r]", "[]"}

\* key in result
HasKey(doc, key) ==
    \/ doc \in {"{questions:[r]}", "{questions:TEXT}"} /\ key = "questions"
    \/ doc \in {"{flashcards:[r]}", "{flashcards:TEXT}"} /\ key = "flashcards"

\* the Python value of a JSON list, or of the value held under the key of a dict
ListValue(doc) == IF doc = "[]" THEN PyList(<<>>) ELSE PyList(<<"r">>)

\* result[fallback_key]: a list or a string
KeyValue(doc) ==
    IF doc \in {"{questions:TEXT}", "{flashcards:TEXT}"} THEN PyStr(<<"TEXT">>)
    ELSE ListValue(doc)

\* UnifiedAIService._parse_json_response: ok = FALSE when json.loads raises
ParseJsonResponse(content, fallback_key) ==
    LET result == JsonLoads(CleanJsonResponse(content))
    IN  IF ~result.ok THEN [ok |-> FALSE, value |-> None]
        ELSE IF fallback_key # "" /\ IsDict(result.doc) /\ HasKey(result.doc, fallback_key)
        THEN [ok |-> TRUE, value |-> KeyValue(result.doc)]
        ELSE [ok |-> TRUE,
              value |-> IF IsList(result.doc) THEN ListValue(result.doc) ELSE PyList(<<>>)]

(***************************************************************************)
(* TokenUsage.                                                             *)
(***************************************************************************)
\* an add_usage that counts a cache hit as a call too
AddUsage_HitCountsCall(u, input_tokens, output_tokens, cached) ==
    IF cached
    THEN [u EXCEPT !.cached_hits = @ + 1, !.total_calls = @ + 1]
    ELSE [u EXCEPT !.input_tokens = @ + input_tokens,
                   !.output_tokens = @ + output_tokens,
                   !.total_calls = @ + 1]

\* TokenUsage.add_usage
AddUsage(u, input_tokens, output_tokens, cached) ==
    IF cached
    THEN [u EXCEPT !.cached_hits = @ + 1]
    ELSE [u EXCEPT !.input_tokens = @ + input_tokens,
                   !.output_tokens = @ + output_tokens,
                   !.total_calls = @ + 1]

\* UnifiedAIService._estimate_tokens, of a text of n characters
EstimateTokens(n) == n \div 4

(***************************************************************************)
(* Providers.  What a backend does with a request is the environment's     *)
(* choice: it raises (ok = FALSE, with its cause) or returns a content.    *)
(***************************************************************************)
ProviderFails(cause) == [ok |-> FALSE, content |-> <<>>, cause |-> cause]

ProviderReturns(content) == [ok |-> TRUE, content |-> content, cause |-> ""]

\* len("Instruction: ") + len("\n\nTask: ") in _get_gemini_response
GeminiFrameLen == 21

\* UnifiedAIService._get_gemini_response
GetGeminiResponse(system_len, user_len, outcome) ==
    IF ~gemini_client
    THEN [ok |-> FALSE, content |-> <<>>, cause |-> "gemini_not_initialized",
          in_tok |-> 0, out_tok |-> 0]
    ELSE [ok |-> outcome.ok, content |-> outcome.content, cause |-> outcome.cause,
          in_tok |-> EstimateTokens(GeminiFrameLen + system_len + user_len),
          out_tok |-> EstimateTokens(StrLen(outcome.content))]

\* UnifiedAIService._get_openrouter_response
GetOpenRouterResponse(system_len, user_len, outcome) ==
    IF ~openrouter_client
    THEN [ok |-> FALSE, content |-> <<>>, cause |-> "openrouter_not_initialized",
          in_tok |-> 0, out_tok |-> 0]
    ELSE [ok |-> outcome.ok, content |-> outcome.content, cause |-> outcome.cause,
          in_tok |-> EstimateTokens(system_len + user_len),
          out_tok |-> EstimateTokens(StrLen(outcome.content))]

\* one backend attempt of _get_ai_response: what the backend wrapper returned
\* (content and unit counts), or that it raised
Attempt(provider, o) ==
    [provider |-> provider, ok |-> o.ok, content |-> o.content,
     in_tok |-> IF o.ok THEN o.in_tok ELSE 0,
     out_tok |-> IF o.ok THEN o.out_tok ELSE 0]

\* an OpenRouter attempt that records its input units although it failed
OpenRouterAttempt_RecordsFailure(system_len, user_len, opr, attempts, usage) ==
    IF openrouter_client
    THEN LET o == GetOpenRouterResponse(system_len, user_len, opr)
             tried == Append(attempts, Attempt("openrouter", o))
         IN  IF o.ok
             THEN [ok |-> TRUE, content |-> o.content, attempts |-> tried, causes |-> {},
                   usage |-> AddUsage(usage, o.in_tok, o.out_tok, FALSE)]
             ELSE [ok |-> FALSE, content |-> <<>>, attempts |-> tried,
                   causes |-> {o.cause}, usage |-> AddUsage(usage, o.in_tok, 0, FALSE)]
    ELSE [ok |-> FALSE, content |-> <<>>, attempts |-> attempts,
          causes |-> {"no_provider_available"}, usage |-> usage]

\* lines 244-251 of _get_ai_response: the OpenRouter attempt, after the
\* attempts made so far
OpenRouterAttempt(system_len, user_len, opr, attempts, usage) ==
    IF openrouter_client
    THEN LET o == GetOpenRouterResponse(system_len, user_len, opr)
             tried == Append(attempts, Attempt("openrouter", o))
         IN  IF o.ok
             THEN [ok |-> TRUE, content |-> o.content, attempts |-> tried, causes |-> {},
                   usage |-> AddUsage(usage, o.in_tok, o.out_tok, FALSE)]
             ELSE [ok |-> FALSE, content |-> <<>>, attempts |-> tried,
                   causes |-> {o.cause}, usage |-> usage]
    ELSE [ok |-> FALSE, content |-> <<>>, attempts |-> attempts,
          causes |-> {"no_provider_available"}, usage |-> usage]

\* a call that also records the failed Gemini attempt in the ledger
GetAIResponse_CountsFailedPrimary(system_len, user_len, json_mode, gem, opr) ==
    IF primary_provider = "gemini" /\ gemini_client
    THEN LET g == GetGeminiResponse(system_len, user_len, gem)
             tried == <<Attempt("gemini", g)>>
             used == AddUsage(token_usage, g.in_tok, g.out_tok, FALSE)
         IN  IF g.ok
             THEN [ok |-> TRUE, content |-> g.content, attempts |-> tried, causes |-> {},
                   usage |-> used]
             ELSE IF openrouter_client
             THEN OpenRouterAttempt(system_len, user_len, opr, tried, used)
             ELSE [ok |-> FALSE, content |-> <<>>, attempts |-> tried,
                   causes |-> {g.cause}, usage |-> token_usage]
    ELSE OpenRouterAttempt(system_len, user_len, opr, <<>>, token_usage)

\* a call that tries Gemini a second time before it falls back
GetAIResponse_RetryPrimary(system_len, user_len, json_mode, gem, opr) ==
    IF primary_provider = "gemini" /\ gemini_client
    THEN LET g == GetGeminiResponse(system_len, user_len, gem)
             tried == <<Attempt("gemini", g)>>
         IN  IF g.ok
             THEN [ok |-> TRUE, content |-> g.content, attempts |-> tried, causes |-> {},
                   usage |-> AddUsage(token_usage, g.in_tok, g.out_tok, FALSE)]
             ELSE IF openrouter_client
             THEN OpenRouterAttempt(system_len, user_len, opr,
                                    Append(tried, Attempt("gemini", g)), token_usage)
             ELSE [ok |-> FALSE, content |-> <<>>, attempts |-> tried,
                   causes |-> {g.cause}, usage |-> token_usage]
    ELSE OpenRouterAttempt(system_len, user_len, opr, <<>>, token_usage)

\* UnifiedAIService._get_ai_response.  gem and opr are what the two backends
\* do if they are called.  The result: the content returned or the causes the
\* raised exception carries, the backend attempts in order, and the ledger
\* afterwards.
GetAIResponse(system_len, user_len, json_mode, gem, opr) ==
    IF primary_provider = "gemini" /\ gemini_client
    THEN LET g == GetGeminiResponse(system_len, user_len, gem)
             tried == <<Attempt("gemini", g)>>
         IN  IF g.ok
             THEN [ok |-> TRUE, content |-> g.content, attempts |-> tried, causes |-> {},
                   usage |-> AddUsage(token_usage, g.in_tok, g.out_tok, FALSE)]
             ELSE IF openrouter_client
             THEN \* except: print, then fall through to the OpenRouter block
                  OpenRouterAttempt(system_len, user_len, opr, tried, token_usage)
             ELSE \* except: raise
                  [ok |-> FALSE, content |-> <<>>, attempts |-> tried,
                   causes |-> {g.cause}, usage |-> token_usage]
    ELSE OpenRouterAttempt(system_len, user_len, opr, <<>>, token_usage)

(***************************************************************************)
(* UnifiedAIService: the generation operations.                            *)
(***************************************************************************)
\* ResponseCache.__init__(max_size=500), as UnifiedAIService constructs it
DefaultMaxSize == 500
\* ttl_seconds of generate_summary
SummaryTTL == 86400
\* ttl_seconds of generate_quiz_questions
QuizTTL == 3600
\* ttl_seconds of generate_flashcards
FlashTTL == 3600
\* ttl_seconds of generate_orientation_message
OrientationTTL == 86400

\* at most MaxCalls generate_* calls are made
MaxCalls == 2
\* the clock of Spec advances at most MaxTicks times
MaxTicks == 1

\* option values: summary_type "general" / "brief", difficulty None / "easy",
\* quiz_type "quiz"; num_questions and num_cards are numbers
General == 1

Brief == 2

NoDifficulty == 0

Easy == 4

QuizType == 3

\* text[:k] if len(text) > k else text
Truncate(text, k) == IF TextLen(text) > k THEN Slice(text, k) ELSE text

\* len(system) and len(user) without the truncated text, per operation
SummarySystemLen == 58

SummaryUserLen(summary_type) == (IF summary_type = Brief THEN 53 ELSE 68) + 2

QuizSystemLen == 68

QuizUserLen(difficulty) == IF difficulty = NoDifficulty THEN 299 ELSE 317

FlashSystemLen == 50

FlashUserLen == 174

NudgeSystemLen == 33

NudgeUserLen(user_context) ==
    67 + (IF user_context # <<>> THEN 10 + TextLen(user_context) ELSE 0)

OrientationSystemLen == 68

OrientationUserLen(academic_level) == 108 + TextLen(academic_level)

\* the record of a generate_* call that returned `result`
Returned(op, text, opts, key, sent, hit, stored, result, r) ==
    [n |-> last.n + 1, op |-> op, text |-> text, opts |-> opts, key |-> key,
     sent |-> sent, hit |-> hit, stored |-> stored, ok |-> TRUE, result |-> result,
     raw |-> r.content, attempts |-> r.attempts, causes |-> {},
     time |-> now, usage_before |-> token_usage]

\* the record of a generate_* call that raised
Raised(op, text, opts, key, sent, r) ==
    [n |-> last.n + 1, op |-> op, text |-> text, opts |-> opts, key |-> key,
     sent |-> sent, hit |-> FALSE, stored |-> FALSE, ok |-> FALSE, result |-> None,
     raw |-> <<>>, attempts |-> r.attempts, causes |-> r.causes,
     time |-> now, usage_before |-> token_usage]

\* no provider was asked
NoResponse == [content |-> <<>>, attempts |-> <<>>]

Unchanged == UNCHANGED <<now, max_size, primary_provider, gemini_client,
                         openrouter_client, ret, fileVars, threads, report, streakVars>>

\* UnifiedAIService.generate_summary
GenerateSummary(text, summary_type, gem, opr) ==
    LET opts   == [summary_type |-> summary_type]
        key    == GenerateKey("summary", text, opts)
        cached == GetResult(cache, key, now)
    IN  /\ last.n < MaxCalls
        /\ IF Truthy(cached.value)
           THEN /\ cache' = cached.cache
                /\ token_usage' = AddUsage(token_usage, 0, 0, TRUE)
                /\ last' = Returned("summary", text, opts, key, <<>>, TRUE, FALSE,
                                    cached.value, NoResponse)
           ELSE LET truncated == Truncate(text, SummaryMaxLen)
                    r == GetAIResponse(SummarySystemLen,
                                       SummaryUserLen(summary_type) + TextLen(truncated),
                                       FALSE, gem, opr)
                IN  /\ token_usage' = r.usage
                    /\ IF r.ok
                       THEN /\ cache' = SetResult(cached.cache, max_size, key,
                                                  PyStr(r.content), SummaryTTL, now)
                            /\ last' = Returned("summary", text, opts, key, truncated,
                                                FALSE, TRUE, PyStr(r.content), r)
                       ELSE /\ cache' = cached.cache
                            /\ last' = Raised("summary", text, opts, key, truncated, r)
        /\ Unchanged

\* a miss that stores quizzes and flashcards for as long as a summary
GenerateRecords_DayTTL(op, text, opts, key, c, truncated, r, fallback_key, ttl_seconds) ==
    /\ token_usage' = r.usage
    /\ IF r.ok
       THEN LET parsed == ParseJsonResponse(r.content, fallback_key)
            IN  IF parsed.ok
                THEN /\ cache' = SetResult(c, max_size, key, parsed.value, SummaryTTL, now)
                     /\ last' = Returned(op, text, opts, key, truncated, FALSE, TRUE,
                                         parsed.value, r)
                ELSE /\ cache' = c
                     /\ last' = Returned(op, text, opts, key, truncated, FALSE, FALSE,
                                         PyList(<<>>), r)
       ELSE /\ cache' = c
            /\ last' = Raised(op, text, opts, key, truncated, r)

\* generate_quiz_questions and generate_flashcards after the cache miss: the
\* provider call, the parse, the cache.set (lines 330-337, 358-365)
GenerateRecords(op, text, opts, key, c, truncated, r, fallback_key, ttl_seconds) ==
    /\ token_usage' = r.usage
    /\ IF r.ok
       THEN LET parsed == ParseJsonResponse(r.content, fallback_key)
            IN  IF parsed.ok
                THEN /\ cache' = SetResult(c, max_size, key, parsed.value, ttl_seconds, now)
                     /\ last' = Returned(op, text, opts, key, truncated, FALSE, TRUE,
                                         parsed.value, r)
                ELSE \* except json.JSONDecodeError: return []
                     /\ cache' = c
                     /\ last' = Returned(op, text, opts, key, truncated, FALSE, FALSE,
                                         PyList(<<>>), r)
       ELSE /\ cache' = c
            /\ last' = Raised(op, text, opts, key, truncated, r)

\* UnifiedAIService.generate_quiz_questions
GenerateQuizQuestions(text, num_questions, difficulty, quiz_type, gem, opr) ==
    LET opts   == [num |-> num_questions, diff |-> difficulty, type |-> quiz_type]
        key    == GenerateKey("quiz", Slice(text, QuizKeyLen), opts)
        cached == GetResult(cache, key, now)
    IN  /\ last.n < MaxCalls
        /\ IF Truthy(cached.value)
           THEN /\ cache' = cached.cache
                /\ token_usage' = AddUsage(token_usage, 0, 0, TRUE)
                /\ last' = Returned("quiz", text, opts, key, <<>>, TRUE, FALSE,
                                    cached.value, NoResponse)
           ELSE LET truncated == Truncate(text, QuizMaxLen)
                    r == GetAIResponse(QuizSystemLen,
                                       QuizUserLen(difficulty) + TextLen(truncated),
                                       TRUE, gem, opr)
                IN  GenerateRecords("quiz", text, opts, key, cached.cache, truncated, r,
                                    "questions", QuizTTL)
        /\ Unchanged

\* UnifiedAIService.generate_flashcards
GenerateFlashcards(text, num_cards, gem, opr) ==
    LET opts   == [num |-> num_cards]
        key    == GenerateKey("flashcards", Slice(text, FlashKeyLen), opts)
        cached == GetResult(cache, key, now)
    IN  /\ last.n < MaxCalls
        /\ IF Truthy(cached.value)
           THEN /\ cache' = cached.cache
                /\ token_usage' = AddUsage(token_usage, 0, 0, TRUE)
                /\ last' = Returned("flashcards", text, opts, key, <<>>, TRUE, FALSE,
                                    cached.value, NoResponse)
           ELSE LET truncated == Truncate(text, FlashMaxLen)
                    r == GetAIResponse(FlashSystemLen, FlashUserLen + TextLen(truncated),
                                       TRUE, gem, opr)
                IN  GenerateRecords("flashcards", text, opts, key, cached.cache,
                                    truncated, r, "flashcards", FlashTTL)
        /\ Unchanged

\* a nudge that is kept in the response cache like an orientation message
GenerateDailyNudge_Cached(user_context, gem, opr) ==
    LET key    == GenerateKey("nudge", user_context, NoKwargs)
        cached == GetResult(cache, key, now)
    IN  /\ last.n < MaxCalls
        /\ IF Truthy(cached.value)
           THEN /\ cache' = cached.cache
                /\ token_usage' = AddUsage(token_usage, 0, 0, TRUE)
                /\ last' = Returned("nudge", user_context, NoKwargs, key, <<>>,
                                    TRUE, FALSE, cached.value, NoResponse)
           ELSE LET r == GetAIResponse(NudgeSystemLen, NudgeUserLen(user_context), FALSE,
                                       gem, opr)
                IN  /\ token_usage' = r.usage
                    /\ IF r.ok
                       THEN /\ cache' = SetResult(cached.cache, max_size, key,
                                                  PyStr(r.content), OrientationTTL, now)
                            /\ last' = Returned("nudge", user_context, NoKwargs, key,
                                                user_context, FALSE, TRUE,
                                                PyStr(r.content), r)
                       ELSE /\ cache' = cached.cache
                            /\ last' = Raised("nudge", user_context, NoKwargs, key,
                                              user_context, r)
        /\ Unchanged

\* UnifiedAIService.generate_daily_nudge
GenerateDailyNudge(user_context, gem, opr) ==
    LET r == GetAIResponse(NudgeSystemLen, NudgeUserLen(user_context), FALSE, gem, opr)
    IN  /\ last.n < MaxCalls
        /\ token_usage' = r.usage
        /\ cache' = cache
        /\ last' = IF r.ok
                   THEN Returned("nudge", user_context, NoKwargs, <<"", 0, 0>>,
                                 user_context, FALSE, FALSE, PyStr(r.content), r)
                   ELSE Raised("nudge", user_context, NoKwargs, <<"", 0, 0>>,
                               user_context, r)
        /\ Unchanged

\* UnifiedAIService.generate_orientation_message
GenerateOrientationMessage(academic_level, gem, opr) ==
    LET key    == GenerateKey("orientation", academic_level, NoKwargs)
        cached == GetResult(cache, key, now)
    IN  /\ last.n < MaxCalls
        /\ IF Truthy(cached.value)
           THEN /\ cache' = cached.cache
                /\ token_usage' = AddUsage(token_usage, 0, 0, TRUE)
                /\ last' = Returned("orientation", academic_level, NoKwargs, key, <<>>,
                                    TRUE, FALSE, cached.value, NoResponse)
           ELSE LET r == GetAIResponse(OrientationSystemLen,
                                       OrientationUserLen(academic_level),
                                       FALSE, gem, opr)
                IN  /\ token_usage' = r.usage
                    /\ IF r.ok
                       THEN /\ cache' = SetResult(cached.cache, max_size, key,
                                                  PyStr(r.content), OrientationTTL, now)
                            /\ last' = Returned("orientation", academic_level, NoKwargs,
                                                key, academic_level, FALSE, TRUE,
                                                PyStr(r.content), r)
                       ELSE /\ cache' = cached.cache
                            /\ last' = Raised("orientation", academic_level, NoKwargs,
                                              key, academic_level, r)
        /\ Unchanged

(***************************************************************************)
(* The service and its environment (Spec).                                 *)
(***************************************************************************)
\* what Gemini may do with a free-text request, and with a JSON request
TextOutcomes ==
    {ProviderFails("error")} \cup {ProviderReturns(c) : c \in {<<>>, <<"TEXT">>}}

JsonOutcomes ==
    {ProviderFails("error")} \cup
    {ProviderReturns(c) : c \in {<<"TEXT">>, <<"[]">>, <<"FENCE_JSON", "[r]", "FENCE">>}}

\* what OpenRouter may do with them
FallbackTextOutcomes == {ProviderFails("error"), ProviderReturns(<<"TEXT">>)}

FallbackJsonOutcomes == {ProviderFails("error"), ProviderReturns(<<"[r]">>)}

\* the outcome of a backend, with the cause naming the backend that raised
Of(provider, outcome) ==
    IF outcome.ok THEN outcome ELSE ProviderFails(provider)

AcademicLevels == {<<[ch |-> c, n |-> 7]>> : c \in Chars}

\* no context, a short one, and one of 30001 characters
UserContexts == {<<>>, <<[ch |-> "a", n |-> 30]>>, MkText(<<"a", "a", "a", "a">>)}

\* _initialize_clients: the configurations that construct a service
Configurations ==
    {[primary |-> "gemini", gemini |-> TRUE, openrouter |-> TRUE],
     [primary |-> "gemini", gemini |-> TRUE, openrouter |-> FALSE],
     [primary |-> "openrouter", gemini |-> FALSE, openrouter |-> TRUE]}

\* UnifiedAIService.__init__
Init ==
    /\ FilesIdle
    /\ threads = NoThreads
    /\ report = NoReport
    /\ StreaksIdle
    /\ now = 0
    /\ max_size = DefaultMaxSize
    /\ cache = <<>>
    /\ token_usage = ZeroUsage
    /\ \E cfg \in Configurations :
          /\ primary_provider = cfg.primary
          /\ gemini_client = cfg.gemini
          /\ openrouter_client = cfg.openrouter
    /\ ret = NoRet
    /\ last = NoCall

DoGenerateSummary ==
    \E text \in InputTexts, st \in {General, Brief}, gem \in TextOutcomes, opr \in FallbackTextOutcomes :
        GenerateSummary(text, st, Of("gemini", gem), Of("openrouter", opr))

DoGenerateQuizQuestions ==
    \E text \in InputTexts, d \in {NoDifficulty, Easy}, gem \in JsonOutcomes, opr \in FallbackJsonOutcomes :
        GenerateQuizQuestions(text, 10, d, QuizType, Of("gemini", gem), Of("openrouter", opr))

DoGenerateFlashcards ==
    \E text \in InputTexts, gem \in JsonOutcomes, opr \in FallbackJsonOutcomes :
        GenerateFlashcards(text, 20, Of("gemini", gem), Of("openrouter", opr))

DoGenerateDailyNudge ==
    \E ctx \in UserContexts, gem \in TextOutcomes, opr \in FallbackTextOutcomes :
        GenerateDailyNudge(ctx, Of("gemini", gem), Of("openrouter", opr))

DoGenerateOrientationMessage ==
    \E level \in AcademicLevels, gem \in TextOutcomes, opr \in FallbackTextOutcomes :
        GenerateOrientationMessage(level, Of("gemini", gem), Of("openrouter", opr))

\* the number of Tick steps that lead to the time t
TickCount(t) == (t \div (SummaryTTL + 1)) + ((t % (SummaryTTL + 1)) \div (QuizTTL + 1))

\* a clock whose ticks expire the texts of the extraction cache
Tick_ExpiresTexts ==
    /\ \E d \in {QuizTTL + 1, SummaryTTL + 1} :
          /\ TickCount(now + d) <= MaxTicks
          /\ now' = now + d
    /\ text_cache' = <<>>
    /\ UNCHANGED <<max_size, cache, token_usage, primary_provider, gemini_client,
                   openrouter_client, ret, last, PDF2IMAGE_AVAILABLE,
                   TESSERACT_AVAILABLE, extracted, threads, report, streakVars>>

\* time passes: just more than the ttl of a quiz, or of a summary
Tick ==
    /\ \E d \in {QuizTTL + 1, SummaryTTL + 1} :
          /\ TickCount(now + d) <= MaxTicks
          /\ now' = now + d
    /\ UNCHANGED <<max_size, cache, token_usage, primary_provider, gemini_client,
                   openrouter_client, ret, last, fileVars, threads, report, streakVars>>

Next ==
    \/ DoGenerateSummary
    \/ DoGenerateQuizQuestions
    \/ DoGenerateFlashcards
    \/ DoGenerateDailyNudge
    \/ DoGenerateOrientationMessage
    \/ Tick

Spec == Init /\ [][Next]_vars

(***************************************************************************)
(* The record operations on every shape of JSON answer (JsonSpec).         *)
(***************************************************************************)
\* what a provider may answer to a JSON request: every JSON document, bare
\* or in a code fence, and prose
ShapeOutcomes ==
    {ProviderFails("error")} \cup
    {ProviderReturns(<<d>>) : d \in JsonDocs} \cup
    {ProviderReturns(c) : c \in {<<"TEXT">>, <<"FENCE_JSON", "{questions:[r]}", "FENCE">>}}

ShapeTexts == {MkText(<<c>>) : c \in Chars}

DoQuizShapes ==
    \E text \in ShapeTexts, gem \in ShapeOutcomes, opr \in FallbackJsonOutcomes :
        GenerateQuizQuestions(text, 10, NoDifficulty, QuizType, Of("gemini", gem),
                              Of("openrouter", opr))

DoFlashShapes ==
    \E text \in ShapeTexts, gem \in ShapeOutcomes, opr \in FallbackJsonOutcomes :
        GenerateFlashcards(text, 20, Of("gemini", gem), Of("openrouter", opr))

NextJson == DoQuizShapes \/ DoFlashShapes

JsonSpec == Init /\ [][NextJson]_vars

(***************************************************************************)
(* OptimizedFileService  (app/services/optimized_file_service.py).         *)
(*                                                                         *)
(* Extracted text.  The heuristic and the joins of the service only look   *)
(* at counts, so a text is the record of its counts: len (characters),     *)
(* lead and trail (whitespace characters at its two ends; both equal len   *)
(* when the text is all whitespace), words (len(text.split())), wordchars  *)
(* (characters in words) and alnum (characters with isalnum()).            *)
(***************************************************************************)
\* k whitespace characters
Blank(k) == [len |-> k, lead |-> k, trail |-> k, words |-> 0, wordchars |-> 0,
             alnum |-> 0]

\* text.strip()
StripText(t) ==
    IF t.words = 0 THEN EmptyText
    ELSE [t EXCEPT !.len = t.len - t.lead - t.trail, !.lead = 0, !.trail = 0]

\* a + b, where a ends or b starts with whitespace, or one of them is empty
Concat(a, b) ==
    [len       |-> a.len + b.len,
     lead      |-> IF a.words = 0 THEN a.len + b.lead ELSE a.lead,
     trail     |-> IF b.words = 0 THEN b.len + a.trail ELSE b.trail,
     words     |-> a.words + b.words,
     wordchars |-> a.wordchars + b.wordchars,
     alnum     |-> a.alnum + b.alnum]

RECURSIVE JoinParts(_, _)
\* sep.join(parts), for a separator of sep whitespace characters
JoinParts(parts, sep) ==
    IF parts = <<>> THEN EmptyText
    ELSE IF Len(parts) = 1 THEN parts[1]
    ELSE Concat(Concat(parts[1], Blank(sep)), JoinParts(Tail(parts), sep))

\* f"--- Page {i+1} ---" for the page at index i (from 0)
PageMarker(i) ==
    LET digits == IF i + 1 < 10 THEN 1 ELSE 2
    IN  [len |-> 13 + digits, lead |-> 0, trail |-> 0, words |-> 4,
         wordchars |-> 10 + digits, alnum |-> 4 + digits]

\* f"--- Page {i+1} ---\n{page_text.strip()}"
MarkedPage(i, page_text) == Concat(Concat(PageMarker(i), Blank(1)), StripText(page_text))

\* bool(text) of a str
NonEmpty(t) == t.len > 0

\* min_chars of _is_text_meaningful: the default, and the one of the OCR stage
NativeMinChars == 100

OcrMinChars == 50

\* a heuristic that also rejects a text of which exactly half is alphanumeric
IsTextMeaningful_StrictRatio(text, min_chars) ==
    IF StripText(text).len < min_chars THEN FALSE
    ELSE IF text.words < 10 THEN FALSE
    ELSE IF text.wordchars < 2 * text.words \/ text.wordchars > 20 * text.words THEN FALSE
    ELSE IF text.len > 0 /\ 2 * text.alnum <= text.len THEN FALSE
    ELSE TRUE

\* OptimizedFileService._is_text_meaningful
IsTextMeaningful(text, min_chars) ==
    IF StripText(text).len < min_chars THEN FALSE
    ELSE IF text.words < 10 THEN FALSE
    \* avg_word_len = wordchars / words; avg < 2 or avg > 20
    ELSE IF text.wordchars < 2 * text.words \/ text.wordchars > 20 * text.words THEN FALSE
    \* alnum_count / len(text) < 0.5
    ELSE IF text.len > 0 /\ 2 * text.alnum < text.len THEN FALSE
    ELSE TRUE

(***************************************************************************)
(* Documents.  A file is its bytes and what the libraries read from those  *)
(* bytes: pdf (pypdf: the text of each page, or it raises), scan           *)
(* (pdf2image + pytesseract: the text read on each page image, or it       *)
(* raises), docx (python-docx: the paragraphs, or it raises) and txt (the  *)
(* decoded content).  The file exists and is readable.                     *)
(***************************************************************************)
Raises == [ok |-> FALSE, pages |-> <<>>]

Reads(pages) == [ok |-> TRUE, pages |-> pages]

\* a page of prose, with a newline at both ends
GoodPage == [len |-> 602, lead |-> 1, trail |-> 1, words |-> 100, wordchars |-> 501,
             alnum |-> 480]

\* a caption of twelve words
ShortPage == [len |-> 60, lead |-> 0, trail |-> 0, words |-> 12, wordchars |-> 49,
              alnum |-> 45]

\* sixty characters, mostly symbols
NoisePage == [len |-> 60, lead |-> 0, trail |-> 0, words |-> 12, wordchars |-> 49,
              alnum |-> 10]

\* two words
TinyText == [len |-> 9, lead |-> 0, trail |-> 0, words |-> 2, wordchars |-> 8,
             alnum |-> 8]

Document(bytes, pdf, scan, docx, txt) ==
    [bytes |-> bytes, pdf |-> pdf, scan |-> scan, docx |-> docx, txt |-> txt]

\* a PDF with a text layer
TextPdf == Document(<<37, 80, 1>>, Reads(<<GoodPage, GoodPage>>),
                    Reads(<<GoodPage, GoodPage>>), Raises, NoisePage)

\* a scanned PDF: no text layer, a caption that OCR reads
ScannedPdf == Document(<<37, 80, 2>>, Reads(<<EmptyText>>), Reads(<<ShortPage>>),
                       Raises, NoisePage)

\* a PDF whose text layer and whose OCR are both noise
NoisyPdf == Document(<<37, 80, 3>>, Reads(<<NoisePage>>), Reads(<<NoisePage>>),
                     Raises, NoisePage)

\* a scanned PDF of one empty page
BlankPdf == Document(<<37, 80, 4>>, Reads(<<EmptyText>>), Reads(<<Blank(3)>>),
                     Raises, NoisePage)

\* a text file of prose
NotesTxt == Document(<<110, 1>>, Raises, Raises, Raises, GoodPage)

\* an empty file
EmptyTxt == Document(<<>>, Raises, Raises, Raises, EmptyText)

\* a DOCX of sixty characters of symbols
NoiseDocx == Document(<<80, 75, 1>>, Raises, Raises, Reads(<<NoisePage>>), NoisePage)

\* a DOCX of two words
StubDocx == Document(<<80, 75, 2>>, Raises, Raises, Reads(<<TinyText>>), NoisePage)

Documents == {TextPdf, ScannedPdf, NoisyPdf, BlankPdf, NotesTxt, EmptyTxt, NoiseDocx,
              StubDocx}

\* OptimizedFileService._get_file_hash
GetFileHash(doc) == MD5(doc.bytes)

\* file_extension arguments, as sequences of characters
Extensions == {<<".", "P", "D", "F">>, <<"t", "x", "t">>, <<".", "d", "o", "c", "x">>,
               <<"d", "o", "c">>, <<"p", "n", "g">>}

\* str.lower() of a character
LowerChar(ch) ==
    CASE ch = "P" -> "p"
      [] ch = "D" -> "d"
      [] ch = "F" -> "f"
      [] OTHER -> ch

RECURSIVE LStripDots(_)
\* s.lstrip('.')
LStripDots(s) == IF s # <<>> /\ Head(s) = "." THEN LStripDots(Tail(s)) ELSE s

\* file_extension.lower().lstrip('.')
NormalizeExt(file_extension) ==
    LStripDots([i \in 1..Len(file_extension) |-> LowerChar(file_extension[i])])

Txt == <<"t", "x", "t">>

Pdf == <<"p", "d", "f">>

Doc == <<"d", "o", "c">>

Docx == <<"d", "o", "c", "x">>

(***************************************************************************)
(* The extraction stages.                                                  *)
(***************************************************************************)
\* [t.strip() for t in texts]
StripAll(texts) == [i \in 1..Len(texts) |-> StripText(texts[i])]

\* OptimizedFileService._extract_pdf_local: (text, success_flag)
ExtractPdfLocal(doc) ==
    IF ~doc.pdf.ok
    THEN [text |-> EmptyText, success |-> FALSE]
    ELSE LET text_parts == StripAll(SelectSeq(doc.pdf.pages, NonEmpty))
             full_text == JoinParts(text_parts, 2)
         IN  [text |-> full_text, success |-> IsTextMeaningful(full_text, NativeMinChars)]

RECURSIVE OcrParts(_, _)
\* the text_parts of _extract_pdf_with_ocr, for the page images from index i on
OcrParts(pages, i) ==
    IF i >= Len(pages) THEN <<>>
    ELSE LET page_text == pages[i + 1]
         IN  (IF NonEmpty(page_text) /\ NonEmpty(StripText(page_text))
              THEN <<MarkedPage(i, page_text)>> ELSE <<>>)
             \o OcrParts(pages, i + 1)

\* OptimizedFileService._extract_pdf_with_ocr: (text, success_flag)
ExtractPdfWithOcr(doc) ==
    IF ~PDF2IMAGE_AVAILABLE \/ ~TESSERACT_AVAILABLE
    THEN [text |-> EmptyText, success |-> FALSE]
    ELSE IF ~doc.scan.ok
    THEN [text |-> EmptyText, success |-> FALSE]
    ELSE LET full_text == JoinParts(OcrParts(doc.scan.pages, 0), 2)
         IN  [text |-> full_text, success |-> IsTextMeaningful(full_text, OcrMinChars)]

\* max_pages of _extract_pdf_with_ai_vision
MaxPages == 10

\* the input units recorded for a page read by Gemini
VisionInputUnits == 500

\* what Gemini does with the page images of one stage: it reads every page,
\* fails on every page, answers every page with the empty text, or fails on
\* the first page and reads the others
VisionBehaviours == {"reads", "fails", "silent", "first_fails"}

\* the answer of Gemini for the page image at index i
VisionAnswer(vis, i) ==
    CASE vis = "fails" -> [ok |-> FALSE, text |-> EmptyText]
      [] vis = "silent" -> [ok |-> TRUE, text |-> EmptyText]
      [] vis = "first_fails" ->
            IF i = 0 THEN [ok |-> FALSE, text |-> EmptyText]
            ELSE [ok |-> TRUE, text |-> GoodPage]
      [] OTHER -> [ok |-> TRUE, text |-> GoodPage]

RECURSIVE VisionPages_StopsAtFailure(_, _, _, _)
\* a loop over the page images that the first failed request ends
VisionPages_StopsAtFailure(count, i, vis, acc) ==
    IF i >= count THEN acc
    ELSE LET a == VisionAnswer(vis, i)
         IN  IF ~a.ok THEN [acc EXCEPT !.requests = @ + 1]
             ELSE VisionPages_StopsAtFailure(count, i + 1, vis,
                    IF NonEmpty(a.text)
                    THEN [text_parts |-> Append(acc.text_parts, MarkedPage(i, a.text)),
                          usage |-> AddUsage(acc.usage, VisionInputUnits, a.text.len \div 4,
                                             FALSE),
                          requests |-> acc.requests + 1,
                          pages |-> Append(acc.pages, i + 1),
                          answered |-> acc.answered + 1]
                    ELSE [acc EXCEPT !.requests = @ + 1, !.answered = @ + 1])

RECURSIVE VisionPages(_, _, _, _)
\* the loop over the page images of _extract_pdf_with_ai_vision, from index i:
\* the text_parts, the ledger, the number of requests made and the numbers
\* of the pages whose text was appended, and the number of requests that
\* returned without an exception
VisionPages(count, i, vis, acc) ==
    IF i >= count THEN acc
    ELSE LET a == VisionAnswer(vis, i)
         IN  VisionPages(count, i + 1, vis,
                IF a.ok /\ NonEmpty(a.text)
                THEN [text_parts |-> Append(acc.text_parts, MarkedPage(i, a.text)),
                      usage |-> AddUsage(acc.usage, VisionInputUnits, a.text.len \div 4, FALSE),
                      requests |-> acc.requests + 1,
                      pages |-> Append(acc.pages, i + 1),
                      answered |-> acc.answered + 1]
                ELSE [acc EXCEPT !.requests = @ + 1,
                                 !.answered = IF a.ok THEN @ + 1 ELSE @])

\* the stage raised before or after its requests
VisionRaised(requests, usage) ==
    [ok |-> FALSE, text |-> EmptyText, requests |-> requests, usage |-> usage,
     pages |-> <<>>, answered |-> 0]

\* an AI Vision stage that sends every page image
ExtractPdfWithAiVision_AllPages(doc, vis) ==
    IF primary_provider = "none" THEN VisionRaised(0, token_usage)
    ELSE IF ~gemini_client THEN VisionRaised(0, token_usage)
    ELSE IF ~PDF2IMAGE_AVAILABLE THEN VisionRaised(0, token_usage)
    ELSE IF ~doc.scan.ok THEN VisionRaised(0, token_usage)
    ELSE LET r == VisionPages(Len(doc.scan.pages), 0, vis,
                              [text_parts |-> <<>>, usage |-> token_usage, requests |-> 0,
                               pages |-> <<>>, answered |-> 0])
         IN  IF r.text_parts = <<>>
             THEN [VisionRaised(r.requests, r.usage) EXCEPT !.answered = r.answered]
             ELSE [ok |-> TRUE, text |-> JoinParts(r.text_parts, 2),
                   requests |-> r.requests, usage |-> r.usage, pages |-> r.pages,
                   answered |-> r.answered]

\* OptimizedFileService._extract_pdf_with_ai_vision: the text, or that it
\* raised; the requests made to Gemini and the ledger afterwards
ExtractPdfWithAiVision(doc, vis) ==
    IF primary_provider = "none" THEN VisionRaised(0, token_usage)
    ELSE IF ~gemini_client THEN VisionRaised(0, token_usage)
    ELSE IF ~PDF2IMAGE_AVAILABLE THEN VisionRaised(0, token_usage)
    ELSE IF ~doc.scan.ok THEN VisionRaised(0, token_usage)
    ELSE LET n == Len(doc.scan.pages)
             r == VisionPages(IF n > MaxPages THEN MaxPages ELSE n, 0, vis,
                              [text_parts |-> <<>>, usage |-> token_usage, requests |-> 0,
                               pages |-> <<>>, answered |-> 0])
         IN  IF r.text_parts = <<>>
             THEN [VisionRaised(r.requests, r.usage) EXCEPT !.answered = r.answered]
             ELSE [ok |-> TRUE, text |-> JoinParts(r.text_parts, 2),
                   requests |-> r.requests, usage |-> r.usage, pages |-> r.pages,
                   answered |-> r.answered]

\* len(full_text.strip()) > 50 in _extract_docx_local
DocxMinLen == 50

\* OptimizedFileService._extract_docx_local, for a document without tables
ExtractDocxLocal(doc) ==
    IF ~doc.docx.ok
    THEN [text |-> EmptyText, success |-> FALSE]
    ELSE LET text_parts == SelectSeq(StripAll(doc.docx.pages), NonEmpty)
             full_text == JoinParts(text_parts, 2)
         IN  [text |-> full_text, success |-> StripText(full_text).len > DocxMinLen]

\* OptimizedFileService._extract_txt
ExtractTxt(doc) == StripText(doc.txt)

(***************************************************************************)
(* extract_text.                                                           *)
(***************************************************************************)
\* a stage that was called: whether its libraries were there, the text it
\* produced, whether it reported success, and for the AI Vision stage the
\* numbers of the pages in its text and the number of its requests that
\* returned
Stage(stage, available, text, success) ==
    [stage |-> stage, available |-> available, text |-> text, success |-> success,
     pages |-> <<>>, answered |-> 0]

\* extract_text returns text, assigned to extracted_text on the path `via`
Extracted(via, text, stages, requests, usage) ==
    [ok |-> TRUE, error |-> "", via |-> via, text |-> text, stages |-> stages,
     requests |-> requests, usage |-> usage]

\* extract_text raises
ExtractionRaised(error, stages, requests, usage) ==
    [ok |-> FALSE, error |-> error, via |-> "none", text |-> EmptyText,
     stages |-> stages, requests |-> requests, usage |-> usage]

\* a fallback that prefers the text of the native parse to the OCR text
PartialResult_NativeFirst(text, ocr_text, stages, requests, usage) ==
    IF NonEmpty(text) THEN Extracted("partial_native", text, stages, requests, usage)
    ELSE IF NonEmpty(ocr_text)
    THEN Extracted("partial_ocr", ocr_text, stages, requests, usage)
    ELSE ExtractionRaised("extraction_failed", stages, requests, usage)

\* lines 316-331: the AI Vision stage raised
PartialResult(text, ocr_text, stages, requests, usage) ==
    IF NonEmpty(ocr_text) THEN Extracted("partial_ocr", ocr_text, stages, requests, usage)
    ELSE IF NonEmpty(text) THEN Extracted("partial_native", text, stages, requests, usage)
    ELSE ExtractionRaised("extraction_failed", stages, requests, usage)

\* lines 307-331: the stages after the native parse reported no success
ExtractPdfByOcr(doc, vis, native) ==
    LET ocr == ExtractPdfWithOcr(doc)
        s2  == <<Stage("NATIVE_PARSE", TRUE, native.text, native.success),
                 Stage("LOCAL_OCR", PDF2IMAGE_AVAILABLE /\ TESSERACT_AVAILABLE,
                       ocr.text, ocr.success)>>
    IN  IF ocr.success
        THEN Extracted("ocr", ocr.text, s2, 0, token_usage)
        ELSE LET vision == ExtractPdfWithAiVision(doc, vis)
                 s3 == Append(s2, [Stage("REMOTE_VISION_OCR", TRUE, vision.text,
                                         vision.ok) EXCEPT !.pages = vision.pages,
                                                    !.answered = vision.answered])
             IN  IF vision.ok
                 THEN Extracted("vision", vision.text, s3, vision.requests, vision.usage)
                 ELSE PartialResult(native.text, ocr.text, s3, vision.requests,
                                    vision.usage)

\* an extraction that runs the OCR stages although the native parse succeeded
ExtractPdf_OcrAlways(doc, vis) == ExtractPdfByOcr(doc, vis, ExtractPdfLocal(doc))

\* lines 298-331 of extract_text: ext == 'pdf'
ExtractPdf(doc, vis) ==
    LET native == ExtractPdfLocal(doc)
    IN  IF native.success
        THEN Extracted("pdf_local", native.text,
                       <<Stage("NATIVE_PARSE", TRUE, native.text, TRUE)>>, 0, token_usage)
        ELSE ExtractPdfByOcr(doc, vis, native)

\* lines 333-343 of extract_text: ext in ['doc', 'docx']
ExtractDocx(doc) ==
    LET native == ExtractDocxLocal(doc)
        s1 == <<Stage("NATIVE_PARSE", TRUE, native.text, native.success)>>
    IN  IF native.success THEN Extracted("docx", native.text, s1, 0, token_usage)
        ELSE IF NonEmpty(native.text)
        THEN Extracted("partial_docx", native.text, s1, 0, token_usage)
        ELSE ExtractionRaised("extraction_failed", s1, 0, token_usage)

\* lines 292-346 of extract_text: the file is not in the cache
ExtractByFormat(doc, ext, vis) ==
    IF ext = Txt
    THEN LET text == ExtractTxt(doc)
         IN  Extracted("txt", text, <<Stage("NATIVE_PARSE", TRUE, text, TRUE)>>, 0,
                       token_usage)
    ELSE IF ext = Pdf THEN ExtractPdf(doc, vis)
    ELSE IF ext \in {Doc, Docx} THEN ExtractDocx(doc)
    ELSE ExtractionRaised("unsupported_file_type", <<>>, 0, token_usage)

\* at most MaxExtractions extract_text calls are made
MaxExtractions == 2

\* file paths
Paths == {1, 2}

\* OptimizedFileService.extract_text(file_path, file_extension), on a file
\* that holds the bytes of doc
ExtractText(file_path, doc, file_extension, vis) ==
    LET ext == NormalizeExt(file_extension)
        file_hash == GetFileHash(doc)
        i == IndexOf(text_cache, file_hash)
        call == [n |-> extracted.n + 1, bytes |-> doc.bytes, path |-> file_path,
                 ext |-> ext, hash |-> file_hash, cleared |-> FALSE,
                 usage_before |-> token_usage]
    IN  /\ extracted.n < MaxExtractions
        /\ IF i # 0
           THEN /\ extracted' = call @@ [hit |-> TRUE, ok |-> TRUE, error |-> "",
                                         via |-> "cache", text |-> text_cache[i].value,
                                         stages |-> <<>>, requests |-> 0]
                /\ UNCHANGED <<text_cache, token_usage>>
           ELSE LET r == ExtractByFormat(doc, ext, vis)
                IN  /\ extracted' = call @@ [hit |-> FALSE, ok |-> r.ok, error |-> r.error,
                                             via |-> r.via, text |-> r.text,
                                             stages |-> r.stages, requests |-> r.requests]
                    /\ token_usage' = r.usage
                    /\ text_cache' = IF r.ok /\ NonEmpty(r.text)
                                     THEN Append(text_cache,
                                                 [key |-> file_hash, value |-> r.text])
                                     ELSE text_cache
        /\ UNCHANGED <<now, max_size, cache, primary_provider, gemini_client,
                       openrouter_client, ret, last, PDF2IMAGE_AVAILABLE,
                       TESSERACT_AVAILABLE, threads, report, streakVars>>

DoExtractText ==
    \E p \in Paths, doc \in Documents, e \in Extensions, vis \in VisionBehaviours :
        ExtractText(p, doc, e, vis)

\* OptimizedFileService.clear_cache
ClearCache ==
    /\ ~extracted.cleared
    /\ text_cache' = <<>>
    /\ extracted' = [extracted EXCEPT !.cleared = TRUE]
    /\ UNCHANGED <<now, max_size, cache, token_usage, primary_provider, gemini_client,
                   openrouter_client, ret, last, PDF2IMAGE_AVAILABLE,
                   TESSERACT_AVAILABLE, threads, report, streakVars>>

\* the import of unified_ai_service left ai_service = None
NoService == [primary |-> "none", gemini |-> FALSE, openrouter |-> FALSE]

\* the process after the import of the two service modules
InitFiles ==
    /\ text_cache = <<>>
    /\ PDF2IMAGE_AVAILABLE \in BOOLEAN
    /\ TESSERACT_AVAILABLE \in BOOLEAN
    /\ extracted = NoExtraction
    /\ threads = NoThreads
    /\ report = NoReport
    /\ StreaksIdle
    /\ now = 0
    /\ max_size = DefaultMaxSize
    /\ cache = <<>>
    /\ token_usage = ZeroUsage
    /\ \E cfg \in Configurations \cup {NoService} :
          /\ primary_provider = cfg.primary
          /\ gemini_client = cfg.gemini
          /\ openrouter_client = cfg.openrouter
    /\ ret = NoRet
    /\ last = NoCall

NextFiles == DoExtractText \/ ClearCache

FileSpec == InitFiles /\ [][NextFiles]_vars

(***************************************************************************)
(* The PDF stages on texts at the limits of the heuristic and on long      *)
(* scans (PdfSpec).                                                        *)
(***************************************************************************)
\* a text of `words` words without whitespace at its ends: len characters,
\* of which wordchars are in words and alnum are alphanumeric
Text(len, words, wordchars, alnum) ==
    [len |-> len, lead |-> 0, trail |-> 0, words |-> words, wordchars |-> wordchars,
     alnum |-> alnum]

\* texts at the limits of the heuristic: 100 characters, 10 words and half
\* alphanumeric; one character less; one word less; one alphanumeric less;
\* words of 2 characters on average, and of a little less; words of 20
\* characters on average, and of a little more; 40 characters of symbols
LimitTexts ==
    <<Text(100, 10, 91, 50), Text(99, 10, 90, 50), Text(100, 9, 92, 50),
      Text(100, 10, 91, 49), Text(149, 50, 100, 80), Text(148, 50, 99, 80),
      Text(209, 10, 200, 150), Text(210, 10, 201, 150), Text(40, 5, 36, 8)>>

\* page texts that make an OCR text, page marker included, of 50 characters
\* and 10 words, half alphanumeric; and of one character less
OcrLimitTexts == <<Text(35, 6, 30, 20), Text(34, 6, 29, 20)>>

\* a PDF whose text layer is the text k of LimitTexts, and whose page image
\* reads as a caption
LimitPdf(k) ==
    Document(<<37, 80, 10 + k>>, Reads(<<LimitTexts[k]>>), Reads(<<ShortPage>>),
             Raises, NoisePage)

\* a scanned PDF whose page image reads as the text k of OcrLimitTexts
OcrLimitPdf(k) ==
    Document(<<37, 80, 30 + k>>, Reads(<<EmptyText>>), Reads(<<OcrLimitTexts[k]>>),
             Raises, NoisePage)

\* a scanned PDF of n pages of handwriting: OCR reads nothing on them
LongScan(n) ==
    Document(<<37, 80, 40 + n>>, Reads([i \in 1..n |-> EmptyText]),
             Reads([i \in 1..n |-> Blank(1)]), Raises, NoisePage)

\* the most pages of a scan of PdfSpec
MaxScanPages == 12

PdfDocuments ==
    {LimitPdf(k) : k \in 1..Len(LimitTexts)}
    \cup {OcrLimitPdf(k) : k \in 1..Len(OcrLimitTexts)}
    \cup {LongScan(n) : n \in {2, MaxPages, MaxPages + 1, MaxScanPages}}

DoExtractPdf ==
    \E doc \in PdfDocuments, vis \in VisionBehaviours :
        ExtractText(1, doc, <<"p", "d", "f">>, vis)

PdfSpec == InitFiles /\ [][DoExtractPdf]_vars

(***************************************************************************)
(* Concurrent callers (ConcSpec).  ai_service is one object of the         *)
(* process; TokenUsage and ResponseCache take no lock.  A caller (thread)  *)
(* runs add_usage, get or set one step at a time: a step is one read or    *)
(* one write of the shared object, and the steps of the callers            *)
(* interleave.                                                             *)
(***************************************************************************)
\* the number of callers
NumThreads == 2

\* the calls one caller makes
MaxThreadCalls == 1

\* the capacity of the cache the callers share
ConcMaxSize == 4

Threads == 1..NumThreads

\* the fingerprints the cache holds at the start, oldest first, and the
\* fingerprint of a new request
HeldKeys == [i \in 1..ConcMaxSize |->
                GenerateKey("summary", <<[ch |-> "a", n |-> i]>>, NoKwargs)]

NewKey == GenerateKey("summary", <<[ch |-> "b", n |-> 1]>>, NoKwargs)

\* the fingerprints the callers ask for
ThreadKeys == {HeldKeys[1], NewKey}

\* a caller between two calls
IdleThread == [pc |-> "idle", op |-> "none", key |-> <<"", 0, 0>>, value |-> None,
               ttl_seconds |-> 0, todo |-> <<>>, tmp |-> 0, keys |-> <<>>,
               size |-> 0, result |-> None, err |-> "", calls |-> 0,
               pending |-> ZeroUsage, done |-> ZeroUsage]

\* the caller t moves on: its record changes, the others stay
Step(t, rec) == threads' = [threads EXCEPT ![t] = rec]

\* the caller t returns from its call
Return(t, result) == [threads[t] EXCEPT !.pc = "idle", !.result = result]

\* the call of the caller t raises
Raise(t, err) == [threads[t] EXCEPT !.pc = "idle", !.err = err]

ConcUnchanged == UNCHANGED <<max_size, primary_provider, gemini_client,
                             openrouter_client, ret, last, fileVars, report, streakVars>>

\* componentwise sum of two ledgers
UsageSum(a, b) ==
    [input_tokens  |-> a.input_tokens + b.input_tokens,
     output_tokens |-> a.output_tokens + b.output_tokens,
     total_calls   |-> a.total_calls + b.total_calls,
     cached_hits   |-> a.cached_hits + b.cached_hits]

\* the caller t calls token_usage.add_usage(input_tokens, output_tokens, cached)
CallAddUsage(t, input_tokens, output_tokens, cached) ==
    /\ threads[t].pc = "idle" /\ threads[t].calls < MaxThreadCalls
    /\ Step(t, [threads[t] EXCEPT
                  !.pc = "usage_load", !.op = "add_usage", !.calls = @ + 1,
                  !.todo = IF cached
                           THEN <<[field |-> "cached_hits", amount |-> 1]>>
                           ELSE <<[field |-> "input_tokens", amount |-> input_tokens],
                                  [field |-> "output_tokens", amount |-> output_tokens],
                                  [field |-> "total_calls", amount |-> 1]>>,
                  !.pending = AddUsage(ZeroUsage, input_tokens, output_tokens, cached)])
    /\ UNCHANGED <<now, cache, token_usage>>
    /\ ConcUnchanged

\* `self.<field> += amount`: the read of the attribute
UsageLoad(t) ==
    /\ threads[t].pc = "usage_load"
    /\ Step(t, [threads[t] EXCEPT !.pc = "usage_store",
                                  !.tmp = token_usage[Head(threads[t].todo).field]])
    /\ UNCHANGED <<now, cache, token_usage>>
    /\ ConcUnchanged

\* `self.<field> += amount`: the write of the sum
UsageStore(t) ==
    LET th == threads[t]
        rest == Tail(th.todo)
    IN  /\ th.pc = "usage_store"
        /\ token_usage' = [token_usage EXCEPT ![Head(th.todo).field] =
                                                  th.tmp + Head(th.todo).amount]
        /\ Step(t, IF rest = <<>>
                   THEN [th EXCEPT !.pc = "idle", !.todo = rest,
                                   !.done = UsageSum(th.done, th.pending)]
                   ELSE [th EXCEPT !.pc = "usage_load", !.todo = rest])
        /\ UNCHANGED <<now, cache>>
        /\ ConcUnchanged

\* the caller t calls cache.get, the key being `key`
CallGet(t, key) ==
    /\ threads[t].pc = "idle" /\ threads[t].calls < MaxThreadCalls
    /\ Step(t, [threads[t] EXCEPT !.pc = "get_load", !.op = "get", !.key = key,
                                  !.calls = @ + 1])
    /\ UNCHANGED <<now, cache, token_usage>>
    /\ ConcUnchanged

\* lines 88-90: entry = self._cache.get(key); an entry that has not expired
\* is returned, an expired one is held for line 92
GetLoad(t) ==
    LET i == IndexOf(cache, threads[t].key)
    IN  /\ threads[t].pc = "get_load"
        /\ Step(t, IF i = 0 THEN Return(t, None)
                   ELSE IF ~IsExpired(cache[i], now) THEN Return(t, cache[i].value)
                   ELSE [threads[t] EXCEPT !.pc = "get_delete"])
        /\ UNCHANGED <<now, cache, token_usage>>
        /\ ConcUnchanged

\* lines 91-93: del self._cache[key]; return None
GetDelete(t) ==
    LET i == IndexOf(cache, threads[t].key)
    IN  /\ threads[t].pc = "get_delete"
        /\ IF i = 0
           THEN Step(t, Raise(t, "KeyError")) /\ UNCHANGED cache
           ELSE Step(t, Return(t, None)) /\ cache' = DeleteKeys(cache, {threads[t].key})
        /\ UNCHANGED <<now, token_usage>>
        /\ ConcUnchanged

\* the keys of the entries of c, in dict order
KeySeq(c) == [i \in 1..Len(c) |-> c[i].key]

RECURSIVE OldestSeq(_, _)
\* sorted(keys, key=created_at)[:n], as a list
OldestSeq(c, n) ==
    IF n <= 0 \/ c = <<>> THEN <<>>
    ELSE LET i == CHOOSE j \in 1..Len(c) :
                    /\ \A k \in 1..Len(c) : c[j].created_at <= c[k].created_at
                    /\ \A k \in 1..(j - 1) : c[k].created_at > c[j].created_at
         IN  <<c[i].key>> \o OldestSeq(DeleteKeys(c, {c[i].key}), n - 1)

\* the caller t calls cache.set, the key being `key`
CallSet(t, key, value, ttl_seconds) ==
    /\ threads[t].pc = "idle" /\ threads[t].calls < MaxThreadCalls
    /\ Step(t, [threads[t] EXCEPT !.pc = "set_len", !.op = "set", !.key = key,
                                  !.value = value, !.ttl_seconds = ttl_seconds,
                                  !.calls = @ + 1])
    /\ UNCHANGED <<now, cache, token_usage>>
    /\ ConcUnchanged

\* line 97: if len(self._cache) >= self.max_size
SetLen(t) ==
    /\ threads[t].pc = "set_len"
    /\ Step(t, [threads[t] EXCEPT !.pc = IF Len(cache) >= max_size
                                         THEN "cleanup_iter" ELSE "set_store"])
    /\ UNCHANGED <<now, cache, token_usage>>
    /\ ConcUnchanged

\* line 111: the comprehension starts to iterate self._cache.items()
CleanupIter(t) ==
    /\ threads[t].pc = "cleanup_iter"
    /\ Step(t, [threads[t] EXCEPT !.pc = "cleanup_iter_end", !.size = Len(cache)])
    /\ UNCHANGED <<now, cache, token_usage>>
    /\ ConcUnchanged

\* line 111: the iteration ends, or it finds that the dict changed size
CleanupIterEnd(t) ==
    LET expired_keys == KeySeq(SelectSeq(cache, LAMBDA e : IsExpired(e, now)))
    IN  /\ threads[t].pc = "cleanup_iter_end"
        /\ Step(t, IF Len(cache) # threads[t].size THEN Raise(t, "RuntimeError")
                   ELSE [threads[t] EXCEPT !.keys = expired_keys,
                                           !.pc = IF expired_keys = <<>>
                                                  THEN "set_len2" ELSE "cleanup_del"])
        /\ UNCHANGED <<now, cache, token_usage>>
        /\ ConcUnchanged

\* `del self._cache[key]` in a loop over the keys collected (lines 112-113
\* and 103-104), then the position `after`
DeleteNext(t, after) ==
    LET th == threads[t]
        key == Head(th.keys)
    IN  IF IndexOf(cache, key) = 0
        THEN Step(t, Raise(t, "KeyError")) /\ UNCHANGED cache
        ELSE /\ cache' = DeleteKeys(cache, {key})
             /\ Step(t, [th EXCEPT !.keys = Tail(th.keys),
                                   !.pc = IF Tail(th.keys) = <<>> THEN after ELSE th.pc])

\* lines 112-113: for key in expired_keys: del self._cache[key]
CleanupDel(t) ==
    /\ threads[t].pc = "cleanup_del"
    /\ DeleteNext(t, "set_len2")
    /\ UNCHANGED <<now, token_usage>>
    /\ ConcUnchanged

\* line 99: if len(self._cache) >= self.max_size
SetLen2(t) ==
    /\ threads[t].pc = "set_len2"
    /\ Step(t, [threads[t] EXCEPT !.pc = IF Len(cache) >= max_size
                                         THEN "evict_keys" ELSE "set_store"])
    /\ UNCHANGED <<now, cache, token_usage>>
    /\ ConcUnchanged

\* line 101: sorted() takes the list of self._cache.keys()
EvictKeys(t) ==
    /\ threads[t].pc = "evict_keys"
    /\ Step(t, [threads[t] EXCEPT !.pc = "evict_sort", !.keys = KeySeq(cache)])
    /\ UNCHANGED <<now, cache, token_usage>>
    /\ ConcUnchanged

\* lines 101-102: the key function reads self._cache[k].created_at of every
\* key of the list; the oldest max_size // 4 are kept
EvictSort(t) ==
    LET th == threads[t]
        listed == {th.keys[i] : i \in 1..Len(th.keys)}
        oldest_keys == OldestSeq(SelectSeq(cache, LAMBDA e : e.key \in listed),
                                 max_size \div 4)
    IN  /\ th.pc = "evict_sort"
        /\ Step(t, IF \E k \in listed : IndexOf(cache, k) = 0 THEN Raise(t, "KeyError")
                   ELSE [th EXCEPT !.keys = oldest_keys,
                                   !.pc = IF oldest_keys = <<>>
                                          THEN "set_store" ELSE "evict_del"])
        /\ UNCHANGED <<now, cache, token_usage>>
        /\ ConcUnchanged

\* lines 103-104: for k in oldest_keys: del self._cache[k]
EvictDel(t) ==
    /\ threads[t].pc = "evict_del"
    /\ DeleteNext(t, "set_store")
    /\ UNCHANGED <<now, token_usage>>
    /\ ConcUnchanged

\* lines 106-107: self._cache[key] = CacheEntry(...)
SetStore(t) ==
    LET th == threads[t]
        e  == [key |-> th.key, value |-> th.value, created_at |-> now,
               ttl_seconds |-> th.ttl_seconds]
        i  == IndexOf(cache, th.key)
    IN  /\ th.pc = "set_store"
        /\ cache' = IF i # 0 THEN [cache EXCEPT ![i] = e] ELSE Append(cache, e)
        /\ Step(t, Return(t, None))
        /\ UNCHANGED <<now, token_usage>>
        /\ ConcUnchanged

\* a second passes
ConcTick ==
    /\ now < MaxTime
    /\ now' = now + 1
    /\ UNCHANGED <<cache, token_usage, threads>>
    /\ ConcUnchanged

\* the entries of HeldKeys, set one after the other at time 0
HeldEntries ==
    [i \in 1..Len(HeldKeys) |->
        [key |-> HeldKeys[i], value |-> SomeStr, created_at |-> 0, ttl_seconds |-> 1]]

\* the service at time 0, its cache empty or full, and the callers idle
InitConc ==
    /\ FilesIdle
    /\ threads = [t \in Threads |-> IdleThread]
    /\ report = NoReport
    /\ StreaksIdle
    /\ now = 0
    /\ max_size = ConcMaxSize
    /\ cache \in {<<>>, HeldEntries}
    /\ token_usage = ZeroUsage
    /\ primary_provider = "gemini"
    /\ gemini_client = TRUE
    /\ openrouter_client = TRUE
    /\ ret = NoRet
    /\ last = NoCall

NextConc ==
    \/ \E t \in Threads :
          \/ \E cached \in BOOLEAN : CallAddUsage(t, 10 * t, t, cached)
          \/ UsageLoad(t)
          \/ UsageStore(t)
          \/ \E key \in ThreadKeys : CallGet(t, key)
          \/ GetLoad(t)
          \/ GetDelete(t)
          \/ \E key \in ThreadKeys : CallSet(t, key, SomeStr, 1)
          \/ SetLen(t)
          \/ CleanupIter(t)
          \/ CleanupIterEnd(t)
          \/ CleanupDel(t)
          \/ SetLen2(t)
          \/ EvictKeys(t)
          \/ EvictSort(t)
          \/ EvictDel(t)
          \/ SetStore(t)
    \/ ConcTick

ConcSpec == InitConc /\ [][NextConc]_vars

(***************************************************************************)
(* The admin endpoints (app/admin/router.py) and the whole process         *)
(* (AdminSpec): one ai_service, one file_processing_service, and the       *)
(* routes that report on them, clear their caches and reset the ledger.    *)
(*                                                                         *)
(* Numbers.  round(x, 6) of a cost in USD is an integer number of          *)
(* millionths of a dollar; round(x, 2) of a percentage is an integer       *)
(* number of hundredths of a percent.                                      *)
(***************************************************************************)
\* thousandths of a millionth of a dollar per input token: 0.075 USD per 1M
InputPrice == 75

\* thousandths of a millionth of a dollar per output token: 0.30 USD per 1M
OutputPrice == 300

\* thousandths in one unit
Thousand == 1000

\* hundredths of a percent in the ratio 1
FullRate == 10000

\* round(n / d, ...) to the unit, n >= 0 and d > 0: the nearest integer; when
\* n / d is halfway between two integers the binary float computed by the
\* program lies on one or the other side, and round() gives either neighbour
Rounded(n, d) ==
    {q \in {n \div d, n \div d + 1} : 2 * (q * d - n) <= d /\ 2 * (n - q * d) <= d}

\* TokenUsage.estimate_cost, in millionths of a dollar
EstimateCost(u) ==
    Rounded(InputPrice * u.input_tokens + OutputPrice * u.output_tokens, Thousand)

\* a hit rate computed over the provider calls alone
CacheHitRatePercent_OverCalls(u) ==
    IF u.total_calls > 0 THEN Rounded(FullRate * u.cached_hits, u.total_calls)
    ELSE {0}

\* round(cache_hit_rate, 2) of get_usage_stats, in hundredths of a percent
CacheHitRatePercent(u) ==
    LET total_requests == u.total_calls + u.cached_hits
    IN  IF total_requests > 0 THEN Rounded(FullRate * u.cached_hits, total_requests)
        ELSE {0}

RECURSIVE CacheSizeChars(_)
\* sum(len(t) for t in self._text_cache.values())
CacheSizeChars(c) == IF c = <<>> THEN 0 ELSE Head(c).value.len + CacheSizeChars(Tail(c))

\* at most MaxRequests requests are served by the process of AdminSpec
MaxRequests == 3

Served == last.n + extracted.n + report.n

\* the response of an admin endpoint
Response(endpoint, status) ==
    [NoReport EXCEPT !.n = report.n + 1, !.endpoint = endpoint, !.status = status,
                     !.served = Served + 1]

\* a report that keeps the cost of the report before it
GetUsageStats_StoredCost ==
    /\ Served < MaxRequests
    /\ IF primary_provider = "none"
       THEN report' = Response("usage-stats", "503")
       ELSE \E cost \in IF report.endpoint = "usage-stats"
                        THEN {report.estimated_cost_usd}
                        ELSE EstimateCost(token_usage),
               rate \in CacheHitRatePercent(token_usage) :
               report' = [Response("usage-stats", "200") EXCEPT
                             !.stats = token_usage,
                             !.estimated_cost_usd = cost,
                             !.cache_hit_rate_percent = rate,
                             !.total_requests = token_usage.total_calls
                                                + token_usage.cached_hits,
                             !.cached_files = Len(text_cache),
                             !.cache_size_chars = CacheSizeChars(text_cache)]
    /\ UNCHANGED <<now, max_size, cache, token_usage, primary_provider, gemini_client,
                   openrouter_client, ret, last, fileVars, threads, streakVars>>

\* GET /admin/usage-stats
GetUsageStats ==
    /\ Served < MaxRequests
    /\ IF primary_provider = "none"
       THEN report' = Response("usage-stats", "503")
       ELSE \E cost \in EstimateCost(token_usage), rate \in CacheHitRatePercent(token_usage) :
               report' = [Response("usage-stats", "200") EXCEPT
                             !.stats = token_usage,
                             !.estimated_cost_usd = cost,
                             !.cache_hit_rate_percent = rate,
                             !.total_requests = token_usage.total_calls
                                                + token_usage.cached_hits,
                             !.cached_files = Len(text_cache),
                             !.cache_size_chars = CacheSizeChars(text_cache)]
    /\ UNCHANGED <<now, max_size, cache, token_usage, primary_provider, gemini_client,
                   openrouter_client, ret, last, fileVars, threads, streakVars>>

\* a clear that leaves the extraction cache
ClearCaches_ResponsesOnly ==
    /\ Served < MaxRequests
    /\ cache' = IF primary_provider = "none" THEN cache ELSE <<>>
    /\ report' = Response("clear-cache", "200")
    /\ UNCHANGED <<now, max_size, token_usage, primary_provider, gemini_client,
                   openrouter_client, ret, last, fileVars, threads, streakVars>>

\* POST /admin/clear-cache
ClearCaches ==
    /\ Served < MaxRequests
    /\ cache' = IF primary_provider = "none" THEN cache ELSE <<>>
    /\ text_cache' = <<>>
    /\ report' = Response("clear-cache", "200")
    /\ UNCHANGED <<now, max_size, token_usage, primary_provider, gemini_client,
                   openrouter_client, ret, last, PDF2IMAGE_AVAILABLE,
                   TESSERACT_AVAILABLE, extracted, threads, streakVars>>

\* a reset that leaves the count of cache hits
ResetUsageStats_KeepsHits ==
    /\ Served < MaxRequests
    /\ IF primary_provider = "none"
       THEN /\ report' = Response("reset-usage-stats", "503")
            /\ UNCHANGED token_usage
       ELSE /\ report' = Response("reset-usage-stats", "200")
            /\ token_usage' = [ZeroUsage EXCEPT !.cached_hits = token_usage.cached_hits]
    /\ UNCHANGED <<now, max_size, cache, primary_provider, gemini_client,
                   openrouter_client, ret, last, fileVars, threads, streakVars>>

\* POST /admin/reset-usage-stats
ResetUsageStats ==
    /\ Served < MaxRequests
    /\ IF primary_provider = "none"
       THEN /\ report' = Response("reset-usage-stats", "503")
            /\ UNCHANGED token_usage
       ELSE /\ report' = Response("reset-usage-stats", "200")
            /\ token_usage' = ZeroUsage
    /\ UNCHANGED <<now, max_size, cache, primary_provider, gemini_client,
                   openrouter_client, ret, last, fileVars, threads, streakVars>>

\* ai_service is not None: the routes can call it
ServiceUp == primary_provider # "none"

\* the requests of AdminSpec to the generation routes: one text, a backend
\* that answers or fails, a fallback that answers
AdminText == MkText(<<"a", "b">>)

AdminGemini == {ProviderFails("gemini"), ProviderReturns(<<"TEXT">>)}

AdminGeminiJson == {ProviderFails("gemini"), ProviderReturns(<<"[r]">>)}

AdminSummary ==
    /\ Served < MaxRequests
    /\ ServiceUp
    /\ \E gem \in AdminGemini :
          GenerateSummary(AdminText, General, gem, ProviderReturns(<<"TEXT">>))

AdminQuiz ==
    /\ Served < MaxRequests
    /\ ServiceUp
    /\ \E gem \in AdminGeminiJson :
          GenerateQuizQuestions(AdminText, 10, NoDifficulty, QuizType, gem,
                                ProviderReturns(<<"[r]">>))

AdminFlashcards ==
    /\ Served < MaxRequests
    /\ ServiceUp
    /\ \E gem \in AdminGeminiJson :
          GenerateFlashcards(AdminText, 20, gem, ProviderReturns(<<"[r]">>))

AdminNudge ==
    /\ Served < MaxRequests
    /\ ServiceUp
    /\ \E gem \in AdminGemini :
          GenerateDailyNudge(<<>>, gem, ProviderReturns(<<"TEXT">>))

AdminOrientation ==
    /\ Served < MaxRequests
    /\ ServiceUp
    /\ \E level \in AcademicLevels, gem \in AdminGemini :
          GenerateOrientationMessage(level, gem, ProviderReturns(<<"TEXT">>))

\* the uploads of AdminSpec
AdminDocuments == {TextPdf, ScannedPdf, NotesTxt}

AdminExtract ==
    /\ Served < MaxRequests
    /\ \E doc \in AdminDocuments, e \in {<<".", "P", "D", "F">>, <<"t", "x", "t">>},
          vis \in {"reads", "fails"} :
          ExtractText(1, doc, e, vis)

\* the process after the import of the two service modules and the router
InitAdmin ==
    /\ InitFiles
    /\ TESSERACT_AVAILABLE = FALSE

NextAdmin ==
    \/ AdminSummary
    \/ AdminQuiz
    \/ AdminFlashcards
    \/ AdminNudge
    \/ AdminOrientation
    \/ AdminExtract
    \/ GetUsageStats
    \/ ClearCaches
    \/ ResetUsageStats
    \/ Tick

AdminSpec == InitAdmin /\ [][NextAdmin]_vars

(***************************************************************************)
(* The figures of the usage report (StatsSpec): get_stats, estimate_cost   *)
(* and the hit rate of GET /admin/usage-stats are pure functions of the    *)
(* ledger, so the process starts with a ledger that earlier requests left: *)
(* any counters that are not negative.  Summaries are requested between    *)
(* the reports.                                                            *)
(***************************************************************************)
\* ledgers: no request or a few, 31 calls and 1 hit (a rate of 3.125 %), and
\* token counts whose cost is 0, less than half a millionth of a dollar,
\* one and a half millionth, and more
Ledgers ==
    [input_tokens : {0, 1, 20, 7500}, output_tokens : {0, 5, 1875},
     total_calls : {0, 1, 2, 31}, cached_hits : {0, 1, 2}]

InitStats ==
    /\ FilesIdle
    /\ threads = NoThreads
    /\ report = NoReport
    /\ StreaksIdle
    /\ now = 0
    /\ max_size = DefaultMaxSize
    /\ cache = <<>>
    /\ \E cfg \in Configurations \cup {NoService} :
          /\ primary_provider = cfg.primary
          /\ gemini_client = cfg.gemini
          /\ openrouter_client = cfg.openrouter
          /\ token_usage \in IF cfg = NoService THEN {ZeroUsage} ELSE Ledgers
    /\ ret = NoRet
    /\ last = NoCall

NextStats == GetUsageStats \/ ResetUsageStats \/ AdminSummary

StatsSpec == InitStats /\ [][NextStats]_vars

(***************************************************************************)
(* StreakService  (app/services/streak_service.py), StreakSpec.            *)
(* A datetime is the number of its day; last_activity_date is None when    *)
(* has_activity is FALSE.                                                  *)
(***************************************************************************)
\* the days of the model
MaxDay == 4
\* at most MaxStreakCalls update_streak calls are made
MaxStreakCalls == 4

\* ReadingStreak(user_id=user_id), with the defaults of the model class
NewRow(day) ==
    [exists |-> TRUE, current_streak |-> 0, longest_streak |-> 0,
     has_activity |-> FALSE, last_activity_date |-> 0,
     total_reading_days |-> 0, created_at |-> day, updated_at |-> day]

\* StreakService.get_or_create_streak: the table afterwards
GetOrCreateStreak(user_id) ==
    IF streaks[user_id].exists THEN streaks
    ELSE [streaks EXCEPT ![user_id] = NewRow(utc_day)]

\* lines 36-50 with a longest_streak that is never updated
Advance_KeepsLongest(row, today) ==
    IF row.has_activity /\ row.last_activity_date = today - 1
    THEN [row EXCEPT !.current_streak = @ + 1, !.total_reading_days = @ + 1]
    ELSE IF ~row.has_activity
    THEN [row EXCEPT !.current_streak = 1, !.total_reading_days = 1]
    ELSE [row EXCEPT !.current_streak = 1, !.total_reading_days = @ + 1]

\* lines 36-50 with a reset that does not count the day
Advance_ResetSkipsDay(row, today) ==
    LET r == IF row.has_activity /\ row.last_activity_date = today - 1
             THEN [row EXCEPT !.current_streak = @ + 1, !.total_reading_days = @ + 1]
             ELSE IF ~row.has_activity
             THEN [row EXCEPT !.current_streak = 1, !.total_reading_days = 1]
             ELSE [row EXCEPT !.current_streak = 1]
    IN  IF r.current_streak > r.longest_streak
        THEN [r EXCEPT !.longest_streak = r.current_streak]
        ELSE r

\* lines 36-50 of update_streak: the counters of a row whose last activity
\* is not today
Advance(row, today) ==
    LET r == IF row.has_activity /\ row.last_activity_date = today - 1
             THEN [row EXCEPT !.current_streak = @ + 1, !.total_reading_days = @ + 1]
             ELSE IF ~row.has_activity
             THEN [row EXCEPT !.current_streak = 1, !.total_reading_days = 1]
             ELSE [row EXCEPT !.current_streak = 1, !.total_reading_days = @ + 1]
    IN  IF r.current_streak > r.longest_streak
        THEN [r EXCEPT !.longest_streak = r.current_streak]
        ELSE r

\* StreakService.update_streak.  The clock is read at line 28 (today), at
\* line 52 (d1) and at line 53 (d2); midnight may pass in between.
UpdateStreak(user_id) ==
    LET table == GetOrCreateStreak(user_id)
        row == table[user_id]
        today == utc_day
    IN  /\ streak_call.n < MaxStreakCalls
        /\ streak_call' = [n |-> streak_call.n + 1, user_id |-> user_id,
                           today |-> today, before |-> streaks[user_id]]
        /\ IF row.has_activity /\ row.last_activity_date = today
           THEN /\ streaks' = table
                /\ utc_day' = utc_day
           ELSE \E d1, d2 \in today..(today + 1) :
                   /\ d1 <= d2 /\ d2 <= MaxDay
                   /\ streaks' = [table EXCEPT ![user_id] =
                                     [Advance(row, today) EXCEPT
                                         !.has_activity = TRUE,
                                         !.last_activity_date = d1,
                                         !.updated_at = d2]]
                   /\ utc_day' = d2
        /\ UNCHANGED <<now, max_size, cache, token_usage, primary_provider,
                       gemini_client, openrouter_client, ret, last, fileVars, threads,
                       report>>

\* GET /streaks/: get_or_create_streak alone
GetStreak(user_id) ==
    /\ ~streaks[user_id].exists
    /\ streaks' = GetOrCreateStreak(user_id)
    /\ UNCHANGED <<now, max_size, cache, token_usage, primary_provider,
                   gemini_client, openrouter_client, ret, last, fileVars, threads,
                   report, utc_day, streak_call>>

\* days pass without a call
DaysPass ==
    /\ \E k \in 1..3 : utc_day + k <= MaxDay /\ utc_day' = utc_day + k
    /\ UNCHANGED <<now, max_size, cache, token_usage, primary_provider,
                   gemini_client, openrouter_client, ret, last, fileVars, threads,
                   report, streaks, streak_call>>

DoUpdateStreak == \E u \in Users : UpdateStreak(u)

DoGetStreak == \E u \in Users : GetStreak(u)

NextStreak == DoUpdateStreak \/ DoGetStreak \/ DaysPass

\* the process after start-up, the optional libraries installed and both
\* providers configured
InitStreak ==
    /\ InitFiles
    /\ TESSERACT_AVAILABLE /\ PDF2IMAGE_AVAILABLE
    /\ primary_provider = "gemini" /\ openrouter_client

StreakSpec == InitStreak /\ [][NextStreak]_vars

(***************************************************************************)
(* Properties.                                                             *)
(***************************************************************************)
\* the operations that use the response cache, and the ttl each stores with
CachedOps == {"summary", "quiz", "flashcards", "orientation"}

TTLOf(op) ==
    CASE op = "summary" -> SummaryTTL
      [] op = "quiz" -> QuizTTL
      [] op = "flashcards" -> FlashTTL
      [] OTHER -> OrientationTTL

\* the text an operation puts in its prompt (lines 284, 317, 347)
TruncatedFor(op, text) ==
    CASE op = "summary" -> Truncate(text, SummaryMaxLen)
      [] op = "quiz" -> Truncate(text, QuizMaxLen)
      [] op = "flashcards" -> Truncate(text, FlashMaxLen)
      [] OTHER -> text

SameRequest(a, b) == a.op = b.op /\ a.text = b.text /\ a.opts = b.opts

\* the next generate_* call is made
NextCall == last'.n = last.n + 1

Has(c, key) == IndexOf(c, key) # 0

EntryAt(c, key) == c[IndexOf(c, key)]

\* the digest has no collision on the texts of the model
DigestCollisionFree ==
    \A x, y \in InputTexts \cup CacheContents \cup AcademicLevels
                \cup {Slice(t, QuizKeyLen) : t \in InputTexts} :
        x # y => MD5(TextBytes(x)) # MD5(TextBytes(y))

\* C1: two sequential calls of a cached operation with the same operation,
\* input and options, the first a miss that returned and no expiry in
\* between, make one provider call and one cache hit, and the second call
\* returns what the first returned, whatever the provider output was.
C1_SecondCallIsTheOnlyHit ==
    [][(/\ NextCall
        /\ last.op \in CachedOps
        /\ last.ok /\ ~last.hit
        /\ SameRequest(last, last')
        /\ now <= last.time + TTLOf(last.op))
       => (/\ token_usage.total_calls = last.usage_before.total_calls + 1
           /\ last'.ok /\ last'.hit
           /\ last'.attempts = <<>>
           /\ last'.result = last.result
           /\ token_usage'.total_calls = token_usage.total_calls
           /\ token_usage'.cached_hits = token_usage.cached_hits + 1)]_vars

\* what a get that must miss and evict the entry of `key` does: it returns
\* None, the entry is gone, the size is one less, every other entry is kept
MissesAndEvicts(key) ==
    /\ ret'.value = None
    /\ ~Has(cache', key)
    /\ Len(cache') = Len(cache) - 1
    /\ \A i \in 1..Len(cache) :
          cache[i].key # key => \E j \in 1..Len(cache') : cache'[j] = cache[i]

\* C2 (as claimed): a get at a time now >= created_at + ttl returns a miss
\* and removes the entry, leaving every other entry unchanged.
C2_GetAtDeadlineMisses ==
    [][\A o \in CacheOps, c \in CacheContents, k \in CacheKwargs :
          LET key == GenerateKey(o, c, k)
          IN  (/\ ret'.kind = "get" /\ ret'.key = key
               /\ Has(cache, key)
               /\ now >= EntryAt(cache, key).created_at + EntryAt(cache, key).ttl_seconds
               /\ CacheGet(o, c, k))
              => MissesAndEvicts(key)]_vars

\* C2 (amended): a get at a time now > created_at + ttl returns a miss and
\* removes the entry, leaving every other entry unchanged; a get returns an
\* entry only while now <= created_at + ttl.
C2_GetAfterDeadlineMisses ==
    [][\A o \in CacheOps, c \in CacheContents, k \in CacheKwargs :
          LET key == GenerateKey(o, c, k)
          IN  /\ (/\ ret'.kind = "get" /\ ret'.key = key
                  /\ Has(cache, key)
                  /\ now > EntryAt(cache, key).created_at + EntryAt(cache, key).ttl_seconds
                  /\ CacheGet(o, c, k))
                 => MissesAndEvicts(key)
              /\ (ret'.kind = "get" /\ ret'.key = key /\ ret'.value # None
                  /\ CacheGet(o, c, k))
                 => /\ Has(cache, key)
                    /\ ret'.value = EntryAt(cache, key).value
                    /\ now <= EntryAt(cache, key).created_at
                              + EntryAt(cache, key).ttl_seconds]_vars

\* a get found an expired entry, deleted it and returned a miss, and other
\* entries are still there
C2_Witness ==
    ret.kind = "get" /\ ret.evicted /\ ret.value = None /\ cache # <<>>

\* C3: a get right after a set of the same fingerprint, with a positive ttl
\* and no time elapsed, returns exactly the value that was set.
C3_GetAfterSetReturnsStored ==
    [][\A o \in CacheOps, c \in CacheContents, k \in CacheKwargs :
          (/\ ret.kind = "set" /\ ret'.kind = "get"
           /\ ret.key = GenerateKey(o, c, k)
           /\ ret.ttl_seconds > 0
           /\ ret.time = now
           /\ CacheGet(o, c, k))
          => ret'.value = ret.value]_vars

\* a get right after a set returned the empty value that was set, on a cache
\* that holds more than one entry
C3_Witness ==
    ret.kind = "get" /\ ret.after_set /\ ret.value = EmptyStr /\ Len(cache) > 1

\* C4: the number of entries never exceeds max_size, for every max_size >= 1.
C4_SizeWithinCapacity == Len(cache) <= max_size

\* the units the ledger gained since the last call began
Gained(field) == token_usage[field] - last.usage_before[field]

\* C5: when the primary (Gemini) fails and the fallback (OpenRouter)
\* succeeds, the call returns the content of the fallback and the ledger
\* gains exactly one call, with the unit counts of the fallback.
C5_FallbackResultRecordedOnce ==
    LET a == last.attempts
    IN  (Len(a) = 2 /\ a[1].provider = "gemini" /\ ~a[1].ok /\ a[2].ok)
        => /\ last.ok
           /\ a[2].provider = "openrouter"
           /\ last.raw = a[2].content
           /\ last.op \in {"summary", "nudge", "orientation"}
                 => last.result = PyStr(a[2].content)
           /\ Gained("total_calls") = 1
           /\ Gained("input_tokens") = a[2].in_tok
           /\ Gained("output_tokens") = a[2].out_tok
           /\ Gained("cached_hits") = 0

\* a summary came from the fallback after the primary failed
C5_Witness ==
    /\ Len(last.attempts) = 2
    /\ ~last.attempts[1].ok /\ last.attempts[2].ok
    /\ last.op = "summary" /\ last.result = SomeStr
    /\ token_usage.total_calls = 1

\* C6: when the primary and the fallback both fail, the failure raised
\* carries the causes of both attempts.
C6_FailureCarriesBothCauses ==
    LET a == last.attempts
    IN  (Len(a) = 2 /\ ~a[1].ok /\ ~a[2].ok)
        => ~last.ok /\ last.causes = {"gemini", "openrouter"}

\* C7: a call attempts the primary first, the fallback only after the
\* primary failed and at most once, never the same backend twice, and the
\* primary is the one fixed at construction.
C7_PrimaryThenOneFallback ==
    /\ [](LET a == last.attempts
          IN  /\ Len(a) <= 2
              /\ Len(a) >= 1 => a[1].provider = primary_provider
              /\ Len(a) = 2 => /\ ~a[1].ok
                               /\ a[2].provider = "openrouter"
                               /\ a[2].provider # a[1].provider)
    /\ [][primary_provider' = primary_provider]_vars

\* a call whose primary failed and whose fallback was then attempted
C7_Witness ==
    /\ Len(last.attempts) = 2
    /\ last.attempts[1].provider = "gemini"
    /\ last.attempts[2].provider = "openrouter"

\* C8: when the output of the provider cannot be parsed as JSON after the
\* code fences are stripped, quiz and flashcard generation fail; they do not
\* return.
C8_UnparsableOutputFails ==
    LET a == last.attempts
    IN  (/\ last.op \in {"quiz", "flashcards"}
         /\ a # <<>> /\ a[Len(a)].ok
         /\ ~JsonLoads(CleanJsonResponse(a[Len(a)].content)).ok)
        => ~last.ok

\* C9: a cache hit returns an artifact generated from the same operation,
\* options and truncated input that the request would send: a request is
\* never answered from the entry stored by a request whose truncated input
\* differs.
C9_HitComesFromSameTruncatedInput ==
    [][(/\ NextCall
        /\ last.stored
        /\ last'.hit
        /\ last'.key = last.key)
       => (/\ last'.op = last.op
           /\ last'.opts = last.opts
           /\ TruncatedFor(last'.op, last'.text) = last.sent)]_vars

\* C10: two requests with the same operation and options whose texts are
\* equal after the truncation of the operation have the same fingerprint,
\* so the second is served from the cache.
C10_FingerprintOfTruncatedInput ==
    [][(/\ NextCall
        /\ last.op \in {"summary", "quiz", "flashcards"}
        /\ last.stored /\ Truthy(last.result)
        /\ last'.op = last.op
        /\ last'.opts = last.opts
        /\ TruncatedFor(last.op, last'.text) = TruncatedFor(last.op, last.text)
        /\ now <= last.time + TTLOf(last.op))
       => (last'.key = last.key /\ last'.hit)]_vars

\* C20: a set on a fingerprint that holds an unexpired entry replaces it:
\* afterwards there is exactly one entry for the fingerprint, with the new
\* value, the new ttl and the time of this set as created_at.
C20_SetReplacesEntry ==
    [][\A a \in CacheSetInputs :
          LET key == GenerateKey(a.operation, a.content, a.kwargs)
          IN  (/\ ret'.kind = "set" /\ ret'.key = key /\ ret'.value = a.value
               /\ ret'.ttl_seconds = a.ttl_seconds
               /\ Has(cache, key)
               /\ ~IsExpired(EntryAt(cache, key), now)
               /\ CacheSet(a.operation, a.content, a.value, a.ttl_seconds, a.kwargs))
              => /\ Cardinality({j \in 1..Len(cache') : cache'[j].key = key}) = 1
                 /\ EntryAt(cache', key) =
                        [key |-> key, value |-> a.value, created_at |-> now,
                         ttl_seconds |-> a.ttl_seconds]]_vars

\* a set at a later time replaced an unexpired entry, giving it another value
\* and another ttl
C20_Witness ==
    /\ ret.kind = "set" /\ ret.replaced
    /\ ret.value = EmptyStr /\ ret.ttl_seconds = MaxTTL
    /\ ret.time > 0
    /\ Len(cache) > 1

RECURSIVE SumOk(_, _)
\* the sum of a unit count over the attempts that succeeded
SumOk(a, field) ==
    IF a = <<>> THEN 0
    ELSE (IF Head(a).ok THEN Head(a)[field] ELSE 0) + SumOk(Tail(a), field)

\* the number of attempts that succeeded
CountOk(a) == Cardinality({i \in 1..Len(a) : a[i].ok})

\* C18: a call answered from the cache invokes no provider and adds exactly
\* one to cached_hits, leaving the other three counters; any other call adds,
\* for every successful provider attempt, one to total_calls and the reported
\* amounts to input_tokens and output_tokens, leaves cached_hits, and records
\* nothing for a failed attempt.
C18_LedgerRecordsCallsAndHits ==
    [][NextCall =>
          LET a == last'.attempts
          IN  /\ last'.hit =>
                    /\ a = <<>>
                    /\ token_usage' = [token_usage EXCEPT !.cached_hits = @ + 1]
              /\ ~last'.hit =>
                    token_usage' =
                        [input_tokens  |-> token_usage.input_tokens + SumOk(a, "in_tok"),
                         output_tokens |-> token_usage.output_tokens + SumOk(a, "out_tok"),
                         total_calls   |-> token_usage.total_calls + CountOk(a),
                         cached_hits   |-> token_usage.cached_hits]]_vars

\* a call answered by a provider was recorded, and then a call answered from
\* the cache
C18_Witness ==
    /\ last.hit
    /\ token_usage.total_calls = 1 /\ token_usage.cached_hits = 1
    /\ token_usage.input_tokens > 0 /\ token_usage.output_tokens > 0

\* C19: a call that fails because every provider attempt failed writes no
\* cache entry and leaves the ledger unchanged, tried no backend twice, and
\* the identical call made next invokes a provider again.
C19_FailedCallLeavesNoTrace ==
    [][/\ (NextCall /\ ~last'.ok) =>
            LET a == last'.attempts
            IN  /\ token_usage' = token_usage
                /\ ~last'.stored
                /\ \A j \in 1..Len(cache') : \E i \in 1..Len(cache) : cache'[j] = cache[i]
                /\ \A i \in 1..Len(a) : ~a[i].ok
                /\ \A i, j \in 1..Len(a) : i # j => a[i].provider # a[j].provider
       /\ (NextCall /\ ~last.ok /\ SameRequest(last, last')) =>
            /\ ~last'.hit
            /\ last'.attempts # <<>>]_vars

\* two calls in a row failed with both backends tried, and neither left an
\* entry in the cache or a count in the ledger
C19_Witness ==
    /\ last.n = 2 /\ ~last.ok
    /\ Len(last.attempts) = 2
    /\ last.op = "summary"
    /\ token_usage = ZeroUsage
    /\ cache = <<>>

\* the fingerprints of the concurrent callers are distinct
ThreadKeysDistinct ==
    /\ \A i, j \in 1..Len(HeldKeys) : i # j => HeldKeys[i] # HeldKeys[j]
    /\ \A i \in 1..Len(HeldKeys) : HeldKeys[i] # NewKey

\* the digest has no collision on the files of the model
FileHashCollisionFree ==
    \A x, y \in Documents : x.bytes # y.bytes => GetFileHash(x) # GetFileHash(y)

\* the stages of the PDF chain, in order
StageOrder == <<"NATIVE_PARSE", "LOCAL_OCR", "REMOTE_VISION_OCR">>

\* the last extract_text call ran the PDF chain
RanPdfChain == extracted.n > 0 /\ extracted.ext = Pdf /\ ~extracted.hit

\* the next extract_text call is made
NextExtraction == extracted'.n = extracted.n + 1

\* C11: for a PDF the stages run in the order NATIVE_PARSE, LOCAL_OCR,
\* REMOTE_VISION_OCR: LOCAL_OCR only after the native text was rejected,
\* REMOTE_VISION_OCR only after local OCR was unavailable or its text was
\* rejected, no stage after one that accepted, and a document accepted at
\* NATIVE_PARSE runs no OCR stage and makes no provider request.
C11_StagesInOrder ==
    LET s == extracted.stages
    IN  RanPdfChain =>
          /\ Len(s) \in 1..3
          /\ \A i \in 1..Len(s) : s[i].stage = StageOrder[i]
          /\ Len(s) >= 2 => ~IsTextMeaningful(s[1].text, NativeMinChars)
          /\ Len(s) = 3 => \/ ~s[2].available
                           \/ ~IsTextMeaningful(s[2].text, OcrMinChars)
          /\ \A i \in 1..Len(s) : s[i].success => i = Len(s)
          /\ extracted.requests > 0 => Len(s) = 3
          /\ IsTextMeaningful(s[1].text, NativeMinChars) =>
                /\ Len(s) = 1
                /\ extracted.ok /\ extracted.text = s[1].text
                /\ extracted.requests = 0
                /\ token_usage = extracted.usage_before

\* a scanned PDF went through the three stages, local OCR being unavailable,
\* and Gemini read its page
C11_Witness ==
    /\ RanPdfChain
    /\ Len(extracted.stages) = 3
    /\ ~extracted.stages[2].available
    /\ extracted.via = "vision"
    /\ extracted.requests = 1
    /\ token_usage.total_calls = 1

\* the paths of extract_text on which a stage reported its text as good
AcceptedVia == {"txt", "pdf_local", "ocr", "vision", "docx"}

\* C12: text returned as the accepted result of a stage passes the
\* text-quality heuristic, for every stage and format.
C12_AcceptedTextPassesHeuristic ==
    (extracted.n > 0 /\ extracted.ok /\ extracted.via \in AcceptedVia)
    => IsTextMeaningful(extracted.text,
                        IF extracted.via \in {"ocr", "vision"}
                        THEN OcrMinChars ELSE NativeMinChars)

\* C13: after an extract_text that succeeded, the next extract_text on a
\* file of the same bytes, the cache not cleared in between, returns the same
\* text from the cache: no stage runs, no provider request is made and the
\* ledger is unchanged.
C13_SameBytesServedFromCache ==
    [][(/\ NextExtraction
        /\ extracted.n > 0 /\ extracted.ok /\ ~extracted.cleared
        /\ extracted'.bytes = extracted.bytes)
       => (/\ extracted'.hit /\ extracted'.ok
           /\ extracted'.text = extracted.text
           /\ extracted'.stages = <<>>
           /\ extracted'.requests = 0
           /\ token_usage' = token_usage)]_vars

\* C14: when no stage of the PDF chain accepted, extract_text returns the
\* OCR text if it is not empty, otherwise the native text if it is not
\* empty, and raises only when both are empty.
C14_BestPartialResult ==
    LET s == extracted.stages
    IN  (RanPdfChain /\ Len(s) = 3 /\ ~s[3].success)
        => IF NonEmpty(s[2].text)
           THEN extracted.ok /\ extracted.text = s[2].text
           ELSE IF NonEmpty(s[1].text)
           THEN extracted.ok /\ extracted.text = s[1].text
           ELSE ~extracted.ok /\ extracted.error = "extraction_failed"

\* the three stages accepted nothing, Gemini was asked and failed, and the
\* rejected OCR text was returned although the native text was not empty
C14_Witness ==
    /\ RanPdfChain
    /\ Len(extracted.stages) = 3
    /\ extracted.requests > 0
    /\ NonEmpty(extracted.stages[1].text)
    /\ extracted.via = "partial_ocr"
    /\ extracted.text = extracted.stages[2].text
    /\ extracted.text # extracted.stages[1].text

\* C15: extract_text with a format other than txt, pdf, doc, docx fails with
\* the unsupported-format error, whatever the cache holds, and leaves the
\* extraction cache and the ledger unchanged.
C15_UnsupportedFormatFails ==
    [][(NextExtraction /\ extracted'.ext \notin {Txt, Pdf, Doc, Docx})
       => (/\ ~extracted'.ok
           /\ extracted'.error = "unsupported_file_type"
           /\ text_cache' = text_cache
           /\ token_usage' = token_usage)]_vars

\* C16: the lookups, inserts and sweeps of concurrent callers exclude each
\* other, so that no operation fails because another caller changed the
\* entries while it was running: no get and no set raises.
C16_NoCacheOperationFails ==
    \A t \in DOMAIN threads : threads[t].err = ""

RECURSIVE Recorded(_)
\* what the calls of add_usage that returned, of the callers 1..n, reported
Recorded(n) == IF n = 0 THEN ZeroUsage ELSE UsageSum(Recorded(n - 1), threads[n].done)

\* C17: no ledger update is lost: when every add_usage call has returned,
\* each counter holds the sum of what the calls reported.
C17_NoLostUpdate ==
    (threads # NoThreads /\ \A t \in DOMAIN threads : threads[t].pc = "idle")
    => token_usage = Recorded(Len(threads))

\* the entries of the dict c
Entries(c) == {c[i] : i \in 1..Len(c)}

\* the entries of c that have not expired at time t
Live(c, t) == {e \in Entries(c) : ~IsExpired(e, t)}

\* what a set of `key` at time t may do to the entries of c, giving c2, when
\* a full cache that holds no more room after the sweep gives up n of its
\* entries: below capacity every other entry stays; at capacity every expired
\* entry goes, and the live ones stay unless the live ones alone fill the
\* cache, and then n of them go, none of them created later than one that
\* stays
SetEvicts(c, c2, ms, key, t, n) ==
    LET others(S) == {e \in S : e.key # key}
    IN  /\ Len(c) < ms => others(Entries(c)) \subseteq Entries(c2)
        /\ Len(c) >= ms =>
             /\ \A e \in others(Entries(c) \ Live(c, t)) : ~Has(c2, e.key)
             /\ Cardinality(Live(c, t)) < ms => others(Live(c, t)) \subseteq Entries(c2)
             /\ Cardinality(Live(c, t)) >= ms =>
                  \E O \in SUBSET Live(c, t) :
                     /\ Cardinality(O) = n
                     /\ \A o \in O, e \in Live(c, t) \ O : o.created_at <= e.created_at
                     /\ others(Live(c, t) \ O) \subseteq Entries(c2)
                     /\ \A o \in others(O) : ~Has(c2, o.key)

\* C21: a set on a full cache removes every expired entry; live entries go
\* only if the live entries alone still fill the cache, and then the ones
\* that go are the oldest quarter of the live entries, none created later
\* than an entry that stays; a set below capacity removes nothing.
C21_EvictsExpiredThenOldestQuarter ==
    [][\A a \in CacheSetInputs :
          LET key == GenerateKey(a.operation, a.content, a.kwargs)
          IN  (/\ ret'.kind = "set" /\ ret'.key = key /\ ret'.value = a.value
               /\ ret'.ttl_seconds = a.ttl_seconds
               /\ CacheSet(a.operation, a.content, a.value, a.ttl_seconds, a.kwargs))
              => SetEvicts(cache, cache', max_size, key, now,
                           Cardinality(Live(cache, now)) \div 4)]_vars

Counters == {"input_tokens", "output_tokens", "total_calls", "cached_hits"}

\* the step is a reset of the ledger that the endpoint accepted
ResetStep ==
    /\ report'.n = report.n + 1
    /\ report'.endpoint = "reset-usage-stats"
    /\ report'.status = "200"

\* C22: no counter of the ledger is ever negative; a reset sets the four of
\* them to 0, and no other step decreases one.
C22_CountersGrowBetweenResets ==
    /\ \A f \in Counters : token_usage[f] >= 0
    /\ [][/\ \A f \in Counters : token_usage'[f] >= 0
          /\ IF ResetStep THEN token_usage' = ZeroUsage
             ELSE \A f \in Counters : token_usage'[f] >= token_usage[f]]_vars

\* the ledger is at 0 after a reset although a provider call was recorded
C22_Witness ==
    /\ report.endpoint = "reset-usage-stats" /\ report.status = "200"
    /\ last.n >= 1 /\ CountOk(last.attempts) >= 1
    /\ token_usage = ZeroUsage

\* the last admin response is a usage report
UsageReported == report.endpoint = "usage-stats" /\ report.status = "200"

\* the rate a report shows, a number with two decimals, is the fraction h / t
ShowsFraction(v, h, t) == v * t = 100 * h

\* the rate a report shows is 100 * h / t rounded to two decimals
ShowsPercent(v, h, t) == 2 * (v * t - FullRate * h) <= t /\ 2 * (FullRate * h - v * t) <= t

\* C23 as stated: the reported cache hit rate equals
\* cached_hits / (total_calls + cached_hits), and is 0 when both are 0.
C23_ReportedRateIsTheFraction ==
    UsageReported =>
        LET h == report.stats.cached_hits
            t == report.stats.total_calls + report.stats.cached_hits
        IN  IF t = 0 THEN report.cache_hit_rate_percent = 0
            ELSE ShowsFraction(report.cache_hit_rate_percent, h, t)

\* C23, amended: the reported cache hit rate is the percentage
\* 100 * cached_hits / (total_calls + cached_hits) rounded to two decimals,
\* and it is 0 when total_calls and cached_hits are both 0; the report is of
\* the ledger as it is.
C23_ReportedRateIsRoundedPercent ==
    [][(report'.n = report.n + 1 /\ report'.endpoint = "usage-stats"
        /\ report'.status = "200")
       => LET h == token_usage.cached_hits
              t == token_usage.total_calls + token_usage.cached_hits
          IN  /\ report'.stats = token_usage
              /\ report'.total_requests = t
              /\ IF t = 0 THEN report'.cache_hit_rate_percent = 0
                 ELSE ShowsPercent(report'.cache_hit_rate_percent, h, t)]_vars

\* a report of 2 hits in 33 requests: 6.06 %
C23_Witness ==
    /\ UsageReported
    /\ report.stats.cached_hits = 2 /\ report.stats.total_calls = 31
    /\ report.cache_hit_rate_percent = 606

\* C24: the estimated cost of a usage report is computed from the counters
\* the ledger holds at that time: 0.075 USD per million input tokens plus
\* 0.30 USD per million output tokens, to the nearest millionth of a dollar;
\* it is 0 when the ledger was just reset and it is never negative.
C24_CostIsComputedFromCounters ==
    [][(report'.n = report.n + 1 /\ report'.endpoint = "usage-stats"
        /\ report'.status = "200")
       => LET c == report'.estimated_cost_usd
              exact == InputPrice * token_usage.input_tokens
                       + OutputPrice * token_usage.output_tokens
          IN  /\ c >= 0
              /\ 2 * (Thousand * c - exact) <= Thousand
              /\ 2 * (exact - Thousand * c) <= Thousand
              /\ (report.endpoint = "reset-usage-stats" /\ report.status = "200"
                  /\ report.served = Served)
                     => c = 0]_vars

\* the second report of the process shows 0.000475 USD: the cost of the 6287
\* input and 10 output tokens of a summary recorded after the first report,
\* which was of the ledger at 0
C24_Witness ==
    /\ UsageReported
    /\ report.n = 2 /\ report.served = 3
    /\ last.n = 1 /\ last.usage_before = ZeroUsage
    /\ report.stats.input_tokens = 6287 /\ report.stats.output_tokens = 10
    /\ report.estimated_cost_usd = 475

\* the step is a clear of the caches
ClearStep == report'.n = report.n + 1 /\ report'.endpoint = "clear-cache"

\* C27: an entry of the extraction cache stays as it is, whatever time
\* passes and whatever is extracted later; only a clear removes it.
C27_ExtractedTextsPersist ==
    [][IF ClearStep THEN text_cache' = <<>>
       ELSE /\ Len(text_cache') >= Len(text_cache)
            /\ \A i \in 1..Len(text_cache) : text_cache'[i] = text_cache[i]]_vars

\* more than a day after the first extraction an upload of the same bytes is
\* answered from the cache, which still holds the entry
C27_Witness ==
    /\ extracted.n = 2 /\ extracted.hit
    /\ now > SummaryTTL
    /\ Len(text_cache) = 1
    /\ text_cache[1].key = extracted.hash /\ text_cache[1].value = extracted.text

\* C28: the clear endpoint empties the response cache and the extraction
\* cache and leaves the ledger; the reset endpoint sets the four counters of
\* the ledger to 0 and leaves the two caches.
C28_ClearAndResetFrames ==
    [][/\ ClearStep => /\ cache' = <<>>
                       /\ text_cache' = <<>>
                       /\ token_usage' = token_usage
       /\ ResetStep => /\ token_usage' = ZeroUsage
                       /\ cache' = cache
                       /\ text_cache' = text_cache]_vars

\* the caches are empty after a clear, a summary and an extracted text
\* having been stored, and the ledger still shows the call
C28_Witness ==
    /\ report.endpoint = "clear-cache" /\ report.served = 3
    /\ last.n = 1 /\ last.stored
    /\ extracted.n = 1 /\ extracted.ok /\ NonEmpty(extracted.text)
    /\ cache = <<>> /\ text_cache = <<>>
    /\ token_usage.total_calls >= 1

RECURSIVE IsPrefix(_, _)
\* the text p is a prefix of the text t
IsPrefix(p, t) ==
    IF p = <<>> THEN TRUE
    ELSE IF t = <<>> THEN FALSE
    ELSE LET a == Head(p)
             b == Head(t)
         IN  /\ a.ch = b.ch
             /\ IF a.n = b.n THEN IsPrefix(Tail(p), Tail(t))
                ELSE IF a.n < b.n
                THEN IsPrefix(Tail(p), <<[ch |-> b.ch, n |-> b.n - a.n]>> \o Tail(t))
                ELSE IsPrefix(<<[ch |-> a.ch, n |-> a.n - b.n]>> \o Tail(p), Tail(t))

\* the fixed maximum of an operation: 30000 characters for a summary, 25000
\* for a quiz and for flashcards; for the nudge and the orientation message,
\* no more than the largest of them
MaxLenOf(op) ==
    CASE op = "quiz" -> QuizMaxLen
      [] op = "flashcards" -> FlashMaxLen
      [] OTHER -> SummaryMaxLen

\* C25: the caller's text that a generation operation puts in its prompt is
\* a prefix of the caller's input, no longer than the fixed maximum of the
\* operation; an input longer than that is cut and is no cause of an error:
\* a call raises only when every backend it asked failed.
C25_PromptTextIsBoundedPrefix ==
    last.n > 0 =>
        /\ IsPrefix(last.sent, last.text)
        /\ TextLen(last.sent) <= MaxLenOf(last.op)
        /\ ~last.ok => /\ last.attempts # <<>>
                       /\ \A i \in 1..Len(last.attempts) : ~last.attempts[i].ok

\* the operation kind of an entry, from its fingerprint
KindOf(e) == e.key[1]

\* when an entry expires
Deadline(e) == e.created_at + e.ttl_seconds

\* C30 as stated: an entry has the fixed TTL of its operation kind, the TTLs
\* of two operation kinds differ, and a quiz or flashcard entry expires
\* strictly before a summary entry stored at the same time.
C30_DistinctTTLPerKind ==
    \A i, j \in 1..Len(cache) :
        /\ KindOf(cache[i]) = KindOf(cache[j])
              => cache[i].ttl_seconds = cache[j].ttl_seconds
        /\ KindOf(cache[i]) # KindOf(cache[j])
              => cache[i].ttl_seconds # cache[j].ttl_seconds
        /\ (/\ KindOf(cache[i]) \in {"quiz", "flashcards"}
            /\ KindOf(cache[j]) = "summary"
            /\ cache[i].created_at = cache[j].created_at)
              => Deadline(cache[i]) < Deadline(cache[j])

\* C30, amended: an entry has the fixed TTL of its operation kind, one of
\* two values: 86400 seconds for a summary and for an orientation message,
\* 3600 seconds for a quiz and for flashcards; a quiz or flashcard entry
\* expires strictly before a summary entry stored at the same time.
C30_LongAndShortTTL ==
    \A i, j \in 1..Len(cache) :
        /\ KindOf(cache[i]) \in {"summary", "orientation"} => cache[i].ttl_seconds = 86400
        /\ KindOf(cache[i]) \in {"quiz", "flashcards"} => cache[i].ttl_seconds = 3600
        /\ (/\ KindOf(cache[i]) \in {"quiz", "flashcards"}
            /\ KindOf(cache[j]) = "summary"
            /\ cache[i].created_at = cache[j].created_at)
              => Deadline(cache[i]) < Deadline(cache[j])

\* a quiz and a summary stored at the same time are both in the cache
C30_Witness ==
    \E i, j \in 1..Len(cache) :
        /\ KindOf(cache[i]) = "quiz" /\ KindOf(cache[j]) = "summary"
        /\ cache[i].created_at = cache[j].created_at

\* the document of PdfSpec that a file holds
DocOf(bytes) == CHOOSE d \in PdfDocuments : d.bytes = bytes

\* the stages of the last extraction, when it read a PDF that was not in the
\* cache
PdfStagesRan == extracted.n > 0 /\ ~extracted.hit /\ extracted.ext = Pdf

\* C26: one AI Vision stage makes at most 10 requests, one for each of the
\* first 10 page images in page order, however many pages the document has;
\* its text is the texts read on those pages in page order, each after its
\* page marker.
C26_VisionReadsFirstTenPages ==
    (PdfStagesRan /\ Len(extracted.stages) = 3) =>
        LET v == extracted.stages[3]
            n == Len(DocOf(extracted.bytes).scan.pages)
            first == IF n > 10 THEN 10 ELSE n
        IN  /\ v.stage = "REMOTE_VISION_OCR"
            /\ extracted.requests <= 10
            /\ extracted.requests =
                  IF ServiceUp /\ gemini_client /\ PDF2IMAGE_AVAILABLE THEN first ELSE 0
            /\ \A k \in 1..Len(v.pages) :
                  /\ v.pages[k] \in 1..first
                  /\ k > 1 => v.pages[k - 1] < v.pages[k]
            /\ v.success =>
                  /\ v.pages # <<>>
                  /\ v.text = JoinParts([k \in 1..Len(v.pages) |->
                                            MarkedPage(v.pages[k] - 1, GoodPage)], 2)
                  /\ extracted.text = v.text

\* a scan of 12 pages was read with 10 requests, and the text is of the
\* pages 1 to 10
C26_Witness ==
    /\ PdfStagesRan /\ Len(extracted.stages) = 3
    /\ Len(DocOf(extracted.bytes).scan.pages) = MaxScanPages
    /\ extracted.requests = 10
    /\ extracted.stages[3].success
    /\ extracted.stages[3].pages = [k \in 1..10 |-> k]

\* the heuristic as the claim states it, for a minimum of m characters
Rejects(t, m) ==
    \/ (IF t.words = 0 THEN 0 ELSE t.len - t.lead - t.trail) < m
    \/ t.words < 10
    \/ t.wordchars < 2 * t.words
    \/ t.wordchars > 20 * t.words
    \/ 2 * t.alnum < t.len

\* C29: the native parse accepts its text exactly when the heuristic, with a
\* minimum of 100 characters, does not reject it, and the local OCR exactly
\* when the heuristic with a minimum of 50 characters does not; a native
\* text that is rejected is followed by the local OCR and, when that stage
\* is unavailable, by the AI Vision stage.
C29_HeuristicDecidesTheStages ==
    PdfStagesRan =>
        LET st == extracted.stages
        IN  /\ Len(st) >= 1
            /\ st[1].stage = "NATIVE_PARSE"
            /\ st[1].success <=> ~Rejects(st[1].text, 100)
            /\ st[1].success => Len(st) = 1
            /\ ~st[1].success =>
                  /\ Len(st) >= 2
                  /\ st[2].stage = "LOCAL_OCR"
                  /\ st[2].available => (st[2].success <=> ~Rejects(st[2].text, 50))
                  /\ ~st[2].available =>
                        /\ ~st[2].success
                        /\ Len(st) = 3
                        /\ st[3].stage = "REMOTE_VISION_OCR"

\* a native parse of 40 characters of symbols was rejected, the local OCR
\* was unavailable, and the AI Vision stage read the document
C29_Witness ==
    /\ PdfStagesRan /\ Len(extracted.stages) = 3
    /\ extracted.stages[1].text = LimitTexts[9]
    /\ ~extracted.stages[1].success
    /\ ~extracted.stages[2].available
    /\ extracted.stages[3].stage = "REMOTE_VISION_OCR"
    /\ extracted.stages[3].success

\* the provider calls that the last extraction added to the ledger
CallsRecorded == token_usage.total_calls - extracted.usage_before.total_calls

\* the AI Vision stage of the last extraction ran
VisionStageRan == PdfStagesRan /\ Len(extracted.stages) = 3

\* C31: the AI Vision stage records in the ledger one provider call for every
\* page request that succeeded, and nothing for a page request that failed.
C31_EachAnsweredPageIsOneCall ==
    VisionStageRan => CallsRecorded = extracted.stages[3].answered

\* the ledger grows by one call for every page whose answer had text
CallsArePagesWithText ==
    VisionStageRan => CallsRecorded = Len(extracted.stages[3].pages)

\* the last extraction ran its stages, none of them accepted its text, and
\* extract_text returned a text all the same
ReturnedRejectedText ==
    /\ extracted.n > 0 /\ ~extracted.hit /\ extracted.ok
    /\ \A k \in 1..Len(extracted.stages) : ~extracted.stages[k].success

\* C32: the extraction cache holds only text that a stage accepted; the
\* rejected partial text that extract_text returns when no stage accepted is
\* not stored, so the cache has no entry for the bytes of that file.
C32_RejectedTextIsNotCached ==
    (ReturnedRejectedText /\ ~extracted.cleared)
        => IndexOf(text_cache, extracted.hash) = 0

\* a rejected text that is returned and not empty is stored under the hash
\* of the file
RejectedTextIsCached ==
    (ReturnedRejectedText /\ ~extracted.cleared)
        => \E i \in 1..Len(text_cache) :
              /\ text_cache[i].key = extracted.hash
              /\ text_cache[i].value = extracted.text

\* C33: extract_text never returns the empty string: for every supported
\* format and every document, a call that does not raise returns a text
\* that is not empty.
C33_NeverReturnsEmptyText ==
    (extracted.n > 0 /\ extracted.ok) => NonEmpty(extracted.text)

\* the formats other than txt never return the empty string
NeverReturnsEmptyTextButTxt ==
    (extracted.n > 0 /\ extracted.ok /\ extracted.ext # Txt) => NonEmpty(extracted.text)

\* the last call was a generate_quiz_questions or a generate_flashcards that
\* returned
RecordsReturned == last.n > 0 /\ last.ok /\ last.op \in {"quiz", "flashcards"}

\* the key under which the operation of the last call looks for its records
KeyOf(op) == IF op = "quiz" THEN "questions" ELSE "flashcards"

\* the answer of the provider to the last call was a JSON document that is
\* neither a list nor an object with the key of the operation
NeitherForm ==
    LET result == JsonLoads(CleanJsonResponse(last.raw))
    IN  /\ ~last.hit
        /\ result.ok
        /\ ~IsList(result.doc)
        /\ ~(IsDict(result.doc) /\ HasKey(result.doc, KeyOf(last.op)))

\* C34: generate_quiz_questions and generate_flashcards return a list
\* whenever they return, whatever JSON value the provider sent, and the
\* empty list when the value is neither a list nor an object with the
\* operation's key.
C34_RecordsResultIsList ==
    RecordsReturned =>
        /\ last.result.t = "list"
        /\ NeitherForm => last.result = PyList(<<>>)

\* the empty list is returned for a document of neither form and for an
\* answer that is not JSON
EmptyListForOtherShapes ==
    (RecordsReturned /\ ~last.hit) =>
        /\ NeitherForm => last.result = PyList(<<>>)
        /\ ~JsonLoads(CleanJsonResponse(last.raw)).ok => last.result = PyList(<<>>)
        /\ IsList(JsonLoads(CleanJsonResponse(last.raw)).doc) => last.result.t = "list"

\* the caller t, whose get found an expired entry at line 88, finishes its
\* call
ExpiredGetReturns(t) == threads[t].pc = "get_delete" /\ threads'[t].pc = "idle"

\* C35: concurrent get calls for the same expired fingerprint all return a
\* miss and none of them fails, and when one returns the entry is absent
\* from the cache.
C35_ConcurrentExpiredGetsMiss ==
    [][\A t \in DOMAIN threads :
          ExpiredGetReturns(t) =>
              /\ threads'[t].err = ""
              /\ threads'[t].result = None
              /\ IndexOf(cache', threads[t].key) = 0]_vars

\* the AI Vision stage of the last extraction reached its loop over the
\* page images
VisionLoopRan == VisionStageRan /\ ServiceUp /\ gemini_client /\ PDF2IMAGE_AVAILABLE

\* the number of page images the stage sends for the last document
PagesToSend ==
    LET n == Len(DocOf(extracted.bytes).scan.pages)
    IN  IF n > MaxPages THEN MaxPages ELSE n

NudgeCall == last'.n = last.n + 1 /\ last'.op = "nudge"

\* the call of the step leaves the cache alone, asks a provider and records
\* no cache hit
NudgeBypassesCache ==
    /\ cache' = cache
    /\ ~last'.hit
    /\ last'.attempts # <<>>
    /\ token_usage'.cached_hits = token_usage.cached_hits

\* C37: generate_daily_nudge never reads or writes the response cache: every
\* call, also with a user context used before, issues a provider request and
\* records one provider call, and never records a cache hit.
C37_NudgeAlwaysAsksAndRecords ==
    [][NudgeCall =>
          /\ NudgeBypassesCache
          /\ token_usage'.total_calls = token_usage.total_calls + 1]_vars

\* C37, amended: every call of generate_daily_nudge leaves the cache as it
\* is, asks a provider and records no cache hit; a call that returns records
\* one provider call, and a call that raises because every provider attempt
\* failed records none.
C37_NudgeBypassesCacheAndRecordsAnswer ==
    [][NudgeCall =>
          /\ NudgeBypassesCache
          /\ token_usage'.total_calls =
                token_usage.total_calls + (IF last'.ok THEN 1 ELSE 0)
          /\ last'.ok => \E k \in 1..Len(last'.attempts) : last'.attempts[k].ok]_vars

\* the second of two calls with prompts of one length returned: both asked a
\* provider, the ledger shows two calls and no hit, and the cache is empty
C37_Witness ==
    /\ last.n = 2 /\ last.op = "nudge" /\ last.ok /\ ~last.hit
    /\ last.text # <<>>
    /\ cache = <<>>
    /\ token_usage.total_calls = 2
    /\ token_usage.cached_hits = 0
    /\ last.usage_before.total_calls = 1
    /\ token_usage.input_tokens = 2 * last.usage_before.input_tokens

\* the user whose streak was updated at least once
HasStreak(table, u) == table[u].exists /\ table[u].has_activity

\* C38: after any update_streak calls of a user on any days, the streak
\* record has 1 <= current_streak <= longest_streak <= total_reading_days,
\* and longest_streak never decreases.
C38_StreakCountersAreOrdered ==
    [][\A u \in Users :
          /\ HasStreak(streaks', u) =>
                /\ 1 <= streaks'[u].current_streak
                /\ streaks'[u].current_streak <= streaks'[u].longest_streak
                /\ streaks'[u].longest_streak <= streaks'[u].total_reading_days
          /\ streaks'[u].longest_streak >= streaks[u].longest_streak]_vars

\* a streak of two days was broken and a new one started: the three
\* counters differ
C38_Witness ==
    \E u \in Users :
        /\ HasStreak(streaks, u)
        /\ streaks[u].current_streak = 1
        /\ streaks[u].longest_streak = 2
        /\ streaks[u].total_reading_days = 3

\* the step is a call of update_streak for the user u
UpdateStreakCall(u) ==
    streak_call'.n = streak_call.n + 1 /\ streak_call'.user_id = u

\* C39: a call of update_streak on the day of the last activity leaves the
\* streak record unchanged; a call on the day after the last activity adds
\* 1 to current_streak, a call two or more days after it sets current_streak
\* to 1, and both add exactly 1 to total_reading_days.
C39_UpdateStreakByDay ==
    [][\A u \in Users :
          (UpdateStreakCall(u) /\ HasStreak(streaks, u)) =>
              LET row == streaks[u]
                  new == streaks'[u]
                  gap == utc_day - row.last_activity_date
              IN  /\ gap = 0 => new = row
                  /\ gap = 1 =>
                        /\ new.current_streak = row.current_streak + 1
                        /\ new.total_reading_days = row.total_reading_days + 1
                  /\ gap >= 2 =>
                        /\ new.current_streak = 1
                        /\ new.total_reading_days = row.total_reading_days + 1
                  /\ gap >= 0]_vars

\* a second call on the day of the last activity returned, and the record,
\* a streak of two days, is what it was before the call
C39_Witness ==
    /\ streak_call.n >= 3
    /\ streak_call.before.exists /\ streak_call.before.has_activity
    /\ streak_call.before.last_activity_date = streak_call.today
    /\ streaks[streak_call.user_id] = streak_call.before
    /\ streaks[streak_call.user_id].current_streak = 2

====
